---- MODULE Spec2Model ----
(***************************************************************************)
(* Thin-wrapper tool discovery, resolution and invocation, as implemented  *)
(* by the demonstration scripts: the three registries (MCPToolRegistry,    *)
(* MCPFilesystemDiscovery, OutlookMCPRegistry), the two MCP clients        *)
(* (MCPClient.call, OutlookMCPClient.call_tool) and the Outlook wrappers.  *)
(*                                                                         *)
(* Python values: a str is a TLA+ string; a list is a sequence; a dict     *)
(* literal is the sequence of its <<key, value>> items in source order.    *)
(* Values that travel as tool arguments or tool results carry their Python *)
(* type (PyStr, PyInt, PyBool, PyNone, PyList, PyDict).                    *)
(***************************************************************************)
EXTENDS Integers, Sequences, FiniteSets, TLC

VARIABLES
    last,           \* the call that completed last: operation, argument, outcome
    storeQueries,   \* per resolve operation and name: lookups made in its table
    resolveCalls,   \* per resolve operation and name: completed resolve calls
    returned,       \* per resolve operation and name: the outcomes returned so far
    pc,             \* per concurrent caller: position inside get_tool_docs
    callerArg,      \* per concurrent caller: the tool_name it was called with
    callerTools,    \* per concurrent caller: its local `tools` dict
    callerOut,      \* per concurrent caller: the outcome it observed
    listings,       \* per listing method: the outcomes its calls returned so far
    discovery,      \* the MCPFilesystemDiscovery instance: its attributes
    inflight,       \* per concurrent caller: the wrapper call it is inside and
                    \* the state of the request that call handed to its client
    frame,          \* the example function being run: its position and locals
    calls,          \* the calls that function made on its client or tools, in order
    stdout,         \* the lines that function printed which show email data or
                    \* its summary
    docstrings,     \* per tool class of mcp_wrapper_example.py: its __doc__
    history         \* the calls a client of the registries has made in its
                    \* session, in order, each with what it returned

vars == <<last, storeQueries, resolveCalls, returned, pc, callerArg, callerTools, callerOut,
          listings, discovery, inflight, frame, calls, stdout, docstrings, history>>

-----------------------------------------------------------------------------
(* Bounds of the model.                                                    *)

\* resolve calls (get_tool_docs, read_tool_module, get_tool_info) per behaviour
MaxResolves == 2
\* concurrent callers of get_tool_docs
NumCallers == 2
\* keyword arguments per call
MaxArgs == 2

\* the largest limit list_emails is called with
MaxLimit == 5

-----------------------------------------------------------------------------
(* Python helpers.                                                         *)

\* `sub in s` for two str
Contains(s, sub) ==
    \E i \in 1..(Len(s) - Len(sub) + 1) : SubSeq(s, i, i + Len(sub) - 1) = sub

\* the elements of a list
Elems(seq) == {seq[i] : i \in 1..Len(seq)}

\* the keys of a dict literal
DictKeys(items) == {items[i][1] : i \in 1..Len(items)}

\* dict.get(key, default): a later item of the literal overrides an earlier one
DictGet(items, key, default) ==
    IF key \in DictKeys(items)
    THEN LET i == CHOOSE j \in 1..Len(items) :
                      /\ items[j][1] = key
                      /\ \A k \in (j + 1)..Len(items) : items[k][1] # key
         IN items[i][2]
    ELSE default

\* how a call ends: with a returned value, or with a raised exception
Return(v) == [kind |-> "return", value |-> v]
Raise(exc, what) == [kind |-> "raise", exc |-> exc, what |-> what]

-----------------------------------------------------------------------------
(* mcp_wrapper_example.py: MCPToolRegistry                                 *)

\* FileSystemTools.__doc__
FileSystemTools_doc ==
    "\n"
    \o "    Thin wrapper for filesystem MCP tools.\n"
    \o "\n"
    \o "    The LLM can:\n"
    \o "    1. Read this file to discover available tools\n"
    \o "    2. Import: from mcp_tools import FileSystemTools\n"
    \o "    3. Use: fs = FileSystemTools(); files = fs.list_directory(\"/path\")\n"
    \o "\n"
    \o "    Notice: No heavy schemas loaded upfront - just Python function signatures!\n"
    \o "    "

\* DatabaseTools.__doc__
DatabaseTools_doc ==
    "Thin wrapper for database MCP tools."

\* APITools.__doc__
APITools_doc ==
    "Thin wrapper for external API MCP tools."

\* MCPToolRegistry.list_available_tools(): category -> method signatures
MCPToolRegistry_list_available_tools ==
    << <<"FileSystemTools",
         << "list_directory(path: str)",
            "read_file(path: str)",
            "write_file(path: str, content: str)",
            "search_files(pattern: str)" >> >>,
       <<"DatabaseTools",
         << "query(sql: str)",
            "insert(table: str, data: dict)",
            "get_schema(table: str)" >> >>,
       <<"APITools",
         << "fetch(url: str, params: dict)",
            "post(url: str, data: dict)" >> >> >>

\* the `tools` dict that get_tool_docs builds on every call, from the
\* __doc__ the three classes have at that moment
get_tool_docs_tools ==
    << <<"FileSystemTools", docstrings.FileSystemTools>>,
       <<"DatabaseTools", docstrings.DatabaseTools>>,
       <<"APITools", docstrings.APITools>> >>

\* get_tool_docs popping the entry from a dict that outlives the call: a
\* second call for the same name no longer finds it
MCPToolRegistry_get_tool_docs_pop(tool_name) ==
    IF storeQueries[<<"get_tool_docs", tool_name>>] > 0
    THEN "Tool not found"
    ELSE DictGet(get_tool_docs_tools, tool_name, "Tool not found")

\* MCPToolRegistry.get_tool_docs(tool_name)
MCPToolRegistry_get_tool_docs(tool_name) ==
    DictGet(get_tool_docs_tools, tool_name, "Tool not found")

-----------------------------------------------------------------------------
(* mcp_discovery_mechanism.py: MCPFilesystemDiscovery                       *)

\* the text returned for "filesystem.py"
filesystem_py ==
    "\n"
    \o "\"\"\"Filesystem MCP Tools\"\"\"\n"
    \o "\n"
    \o "class FileSystem:\n"
    \o "    \"\"\"Tools for filesystem operations.\"\"\"\n"
    \o "\n"
    \o "    def list_directory(self, path: str) -> list:\n"
    \o "        \"\"\"List files in directory.\"\"\"\n"
    \o "        import os\n"
    \o "        return [\n"
    \o "            {\"name\": f, \"size\": os.path.getsize(os.path.join(path, f))}\n"
    \o "            for f in os.listdir(path)\n"
    \o "        ]\n"
    \o "\n"
    \o "    def read_file(self, path: str) -> str:\n"
    \o "        \"\"\"Read file contents.\"\"\"\n"
    \o "        with open(path, 'r') as f:\n"
    \o "            return f.read()\n"
    \o "\n"
    \o "    def write_file(self, path: str, content: str) -> bool:\n"
    \o "        \"\"\"Write content to file.\"\"\"\n"
    \o "        with open(path, 'w') as f:\n"
    \o "            f.write(content)\n"
    \o "        return True\n"

\* the text returned for "database.py"
database_py ==
    "\n"
    \o "\"\"\"Database MCP Tools\"\"\"\n"
    \o "\n"
    \o "class Database:\n"
    \o "    \"\"\"Tools for database operations.\"\"\"\n"
    \o "\n"
    \o "    def query(self, sql: str) -> list:\n"
    \o "        \"\"\"Execute SQL query.\"\"\"\n"
    \o "        # Implementation would connect to actual DB\n"
    \o "        return []\n"
    \o "\n"
    \o "    def insert(self, table: str, data: dict) -> int:\n"
    \o "        \"\"\"Insert row into table.\"\"\"\n"
    \o "        return 1\n"

\* the listing with one module file missing
MCPFilesystemDiscovery_list_available_tools_short ==
    << "filesystem.py", "api.py", "email.py", "slack.py", "github.py",
       "aws.py", "docker.py", "kubernetes.py", "analytics.py" >>

\* the listing with the module that was read just before moved to the front
MCPFilesystemDiscovery_list_available_tools_mru ==
    IF last.op = "read_tool_module" /\ last.arg = "database.py"
    THEN << "database.py", "filesystem.py", "api.py", "email.py", "slack.py",
            "github.py", "aws.py", "docker.py", "kubernetes.py", "analytics.py" >>
    ELSE << "filesystem.py", "database.py", "api.py", "email.py", "slack.py",
            "github.py", "aws.py", "docker.py", "kubernetes.py", "analytics.py" >>

\* MCPFilesystemDiscovery.list_available_tools()
MCPFilesystemDiscovery_list_available_tools ==
    << "filesystem.py", "database.py", "api.py", "email.py", "slack.py",
       "github.py", "aws.py", "docker.py", "kubernetes.py", "analytics.py" >>

\* the tool names read_tool_module has a module text for
read_tool_module_known == {"filesystem.py", "database.py"}

\* MCPFilesystemDiscovery.read_tool_module(tool_name)
MCPFilesystemDiscovery_read_tool_module(tool_name) ==
    IF tool_name = "filesystem.py" THEN filesystem_py
    ELSE IF tool_name = "database.py" THEN database_py
    ELSE "# " \o tool_name \o " - Tool module"

-----------------------------------------------------------------------------
(* outlook_mcp_thin_wrapper.py: OutlookMCPRegistry                          *)

\* OutlookMCPRegistry.list_tools()
OutlookMCPRegistry_list_tools ==
    << "email.py - Email operations (list, search, send, delete)",
       "calendar.py - Calendar management (events, meetings)",
       "contacts.py - Contact management (search, get)" >>

\* the `info` dict that get_tool_info builds on every call
get_tool_info_info ==
    << <<"email", "Email: list, search, get, send, delete, mark_read">>,
       <<"calendar", "Calendar: list_events, create_event, delete_event">>,
       <<"contacts", "Contacts: search, get">> >>

\* OutlookMCPRegistry.get_tool_info(tool_name)
OutlookMCPRegistry_get_tool_info(tool_name) ==
    DictGet(get_tool_info_info, tool_name, "Tool not found")

-----------------------------------------------------------------------------
(* Python values that travel as tool arguments and tool results.           *)

\* a value is a record with one field, named after its Python type
PyStr(s) == [str |-> s]
PyInt(n) == [int |-> n]
PyBool(b) == [bool |-> b]
PyNone == [NoneType |-> "None"]
PyList(elems) == [list |-> elems]
PyDict(items) == [dict |-> items]

\* type(value).__name__
TypeOf(value) == CHOOSE t \in DOMAIN value : TRUE

\* str(value), as an f-string formats it
Str(value) ==
    CASE TypeOf(value) = "str" -> value.str
      [] TypeOf(value) = "int" -> ToString(value.int)
      [] TypeOf(value) = "bool" -> IF value.bool THEN "True" ELSE "False"
      [] TypeOf(value) = "NoneType" -> "None"

\* arguments.get(name): keyword arguments and argument dicts are functions
\* from argument names to values
ArgGet(arguments, name) ==
    IF name \in DOMAIN arguments THEN arguments[name] ELSE PyNone

\* one request to the MCP server
Request(tool_name, arguments) == [tool |-> tool_name, arguments |-> arguments]

\* what a call did: its outcome and the requests it sent to the MCP server
Done(out, sent) == [out |-> out, sent |-> sent]

-----------------------------------------------------------------------------
(* outlook_mcp_production_example.py: MCPClient and the wrappers            *)

\* MCPClient.call(tool_name, **arguments): the value it returns
MCPClient_call(tool_name, arguments) ==
    IF tool_name = "outlook_list_emails"
    THEN PyList(<< PyDict(<< <<"id", PyStr("msg_001")>>,
                            <<"subject", PyStr("Q4 Planning")>>,
                            <<"from", PyStr("manager@company.com")>>,
                            <<"date", PyStr("2025-11-08T10:00:00Z")>> >>) >>)
    ELSE IF tool_name = "outlook_search_emails"
    THEN PyList(<< PyDict(<< <<"id", PyStr("msg_002")>>,
                            <<"subject",
                              PyStr("Search: " \o Str(ArgGet(arguments, "query")))>> >>) >>)
    ELSE PyDict(<< >>)

\* ClientCalled with a retry: an empty answer ({}) makes it send the request
\* a second time
ClientCalled_retry(tool_name, arguments) ==
    LET answer == MCPClient_call(tool_name, arguments)
    IN  Done(Return(answer),
             IF answer = PyDict(<< >>)
             THEN << Request(tool_name, arguments), Request(tool_name, arguments) >>
             ELSE << Request(tool_name, arguments) >>)

\* self.client.call(tool_name, ...) inside a wrapper method: the request is
\* announced ("[MCP Call]") and the server's answer is returned
ClientCalled(tool_name, arguments) ==
    Done(Return(MCPClient_call(tool_name, arguments)),
         << Request(tool_name, arguments) >>)

\* a parameter of a wrapper method's signature
Param(name, type, required, default) ==
    [name |-> name, type |-> type, required |-> required, default |-> default]

ParamNames(params) == {params[i].name : i \in 1..Len(params)}

ParamNamed(params, name) ==
    params[CHOOSE i \in 1..Len(params) : params[i].name = name]

\* Python binding keyword arguments to a signature: an unexpected keyword is
\* a TypeError; then a missing required parameter is a TypeError naming the
\* missing parameters; otherwise every parameter has its argument or its
\* default. Annotations are not checked.
Bind(params, kwargs) ==
    LET unexpected == DOMAIN kwargs \ ParamNames(params)
        missing == {n \in ParamNames(params) :
                        ParamNamed(params, n).required /\ n \notin DOMAIN kwargs}
    IN  IF unexpected # {}
        THEN Raise("TypeError",
                   [problem |-> "unexpected keyword argument", names |-> unexpected])
        ELSE IF missing # {}
        THEN Raise("TypeError",
                   [problem |-> "missing required positional argument",
                    names |-> missing])
        ELSE Return([n \in ParamNames(params) |->
                        IF n \in DOMAIN kwargs THEN kwargs[n]
                        ELSE ParamNamed(params, n).default])

\* bool(value)
Truthy(value) ==
    CASE TypeOf(value) = "NoneType" -> FALSE
      [] TypeOf(value) = "bool" -> value.bool
      [] TypeOf(value) = "int" -> value.int # 0
      [] TypeOf(value) = "str" -> value.str # ""
      [] TypeOf(value) = "list" -> value.list # << >>
      [] TypeOf(value) = "dict" -> value.dict # << >>

\* value or alternative
Or(value, alternative) == IF Truthy(value) THEN value ELSE alternative

\* def list_emails(self, folder="inbox", limit=50, unread_only=False)
OutlookEmailWrapper_list_emails_params ==
    << Param("folder", "str", FALSE, PyStr("inbox")),
       Param("limit", "int", FALSE, PyInt(50)),
       Param("unread_only", "bool", FALSE, PyBool(FALSE)) >>

\* OutlookEmailWrapper.list_emails(**kwargs)
OutlookEmailWrapper_list_emails(kwargs) ==
    LET b == Bind(OutlookEmailWrapper_list_emails_params, kwargs)
    IN  IF b.kind = "raise" THEN Done(b, << >>)
        ELSE ClientCalled("outlook_list_emails",
                          [folder |-> b.value["folder"],
                           limit |-> b.value["limit"],
                           unread_only |-> b.value["unread_only"]])

\* def search_emails(self, query)
OutlookEmailWrapper_search_emails_params ==
    << Param("query", "str", TRUE, PyNone) >>

\* OutlookEmailWrapper.search_emails(**kwargs)
OutlookEmailWrapper_search_emails(kwargs) ==
    LET b == Bind(OutlookEmailWrapper_search_emails_params, kwargs)
    IN  IF b.kind = "raise" THEN Done(b, << >>)
        ELSE ClientCalled("outlook_search_emails", [query |-> b.value["query"]])

\* def send_email(self, to, subject, body)
OutlookEmailWrapper_send_email_params ==
    << Param("to", "list", TRUE, PyNone),
       Param("subject", "str", TRUE, PyNone),
       Param("body", "str", TRUE, PyNone) >>

\* OutlookEmailWrapper.send_email(**kwargs)
OutlookEmailWrapper_send_email(kwargs) ==
    LET b == Bind(OutlookEmailWrapper_send_email_params, kwargs)
    IN  IF b.kind = "raise" THEN Done(b, << >>)
        ELSE ClientCalled("outlook_send_email",
                          [to |-> b.value["to"],
                           subject |-> b.value["subject"],
                           body |-> b.value["body"]])

\* def list_events(self, start_date=None, end_date=None)
OutlookCalendarWrapper_list_events_params ==
    << Param("start_date", "str", FALSE, PyNone),
       Param("end_date", "str", FALSE, PyNone) >>

\* OutlookCalendarWrapper.list_events(**kwargs)
OutlookCalendarWrapper_list_events(kwargs) ==
    LET b == Bind(OutlookCalendarWrapper_list_events_params, kwargs)
    IN  IF b.kind = "raise" THEN Done(b, << >>)
        ELSE ClientCalled("outlook_list_events",
                          [start_date |-> b.value["start_date"],
                           end_date |-> b.value["end_date"]])

\* def create_event(self, subject, start, end, attendees=None)
OutlookCalendarWrapper_create_event_params ==
    << Param("subject", "str", TRUE, PyNone),
       Param("start", "str", TRUE, PyNone),
       Param("end", "str", TRUE, PyNone),
       Param("attendees", "list", FALSE, PyNone) >>

\* OutlookCalendarWrapper.create_event(**kwargs)
OutlookCalendarWrapper_create_event(kwargs) ==
    LET b == Bind(OutlookCalendarWrapper_create_event_params, kwargs)
    IN  IF b.kind = "raise" THEN Done(b, << >>)
        ELSE ClientCalled("outlook_create_event",
                          [subject |-> b.value["subject"],
                           start |-> b.value["start"],
                           end |-> b.value["end"],
                           attendees |-> Or(b.value["attendees"], PyList(<< >>))])

\* the tools the wrappers expose, each with the parameters its wrapper
\* method declares
WrapperTools ==
    << <<"outlook_list_emails", OutlookEmailWrapper_list_emails_params>>,
       <<"outlook_search_emails", OutlookEmailWrapper_search_emails_params>>,
       <<"outlook_send_email", OutlookEmailWrapper_send_email_params>>,
       <<"outlook_list_events", OutlookCalendarWrapper_list_events_params>>,
       <<"outlook_create_event", OutlookCalendarWrapper_create_event_params>> >>

-----------------------------------------------------------------------------
(* outlook_mcp_reference_implementation.py: OutlookMCPClient                *)

\* one email of the canned outlook_list_emails answer
ReferenceEmail(id, subject, from, date, isRead, bodyPreview) ==
    PyDict(<< <<"id", PyStr(id)>>,
              <<"subject", PyStr(subject)>>,
              <<"from", PyStr(from)>>,
              <<"date", PyStr(date)>>,
              <<"isRead", PyBool(isRead)>>,
              <<"bodyPreview", PyStr(bodyPreview)>> >>)

\* one event of the canned outlook_list_events answer
ReferenceEvent(id, subject, start, end, location) ==
    PyDict(<< <<"id", PyStr(id)>>,
              <<"subject", PyStr(subject)>>,
              <<"start", PyStr(start)>>,
              <<"end", PyStr(end)>>,
              <<"location", PyStr(location)>> >>)

\* OutlookMCPClient.call_tool(tool_name, arguments): the value it returns
OutlookMCPClient_call_tool(tool_name, arguments) ==
    IF tool_name = "outlook_list_emails"
    THEN PyDict(<< <<"emails", PyList(<<
            ReferenceEmail("msg_001", "Q4 Planning Meeting", "manager@company.com",
                           "2025-11-08T10:00:00Z", FALSE,
                           "Let's schedule our Q4 planning session..."),
            ReferenceEmail("msg_002", "Budget Approval Request", "finance@company.com",
                           "2025-11-08T09:30:00Z", FALSE,
                           "Please review the Q4 budget..."),
            ReferenceEmail("msg_003", "Team Update", "colleague@company.com",
                           "2025-11-08T09:00:00Z", TRUE,
                           "Weekly team update...") >>)>> >>)
    ELSE IF tool_name = "outlook_list_events"
    THEN PyDict(<< <<"events", PyList(<<
            ReferenceEvent("evt_001", "Daily Standup", "2025-11-11T09:00:00Z",
                           "2025-11-11T09:30:00Z", "Conference Room A"),
            ReferenceEvent("evt_002", "Client Meeting", "2025-11-11T14:00:00Z",
                           "2025-11-11T15:00:00Z", "Zoom") >>)>> >>)
    ELSE IF tool_name = "outlook_create_event"
    THEN PyDict(<< <<"id", PyStr("evt_new_001")>>,
                   <<"subject", ArgGet(arguments, "subject")>>,
                   <<"start", ArgGet(arguments, "start")>>,
                   <<"end", ArgGet(arguments, "end")>>,
                   <<"status", PyStr("confirmed")>> >>)
    ELSE PyDict(<< >>)

\* await self.client.call_tool(tool_name, arguments): the request is
\* announced ("[MCP Call]") and the server's answer is returned
ToolCalled(tool_name, arguments) ==
    Done(Return(OutlookMCPClient_call_tool(tool_name, arguments)),
         << Request(tool_name, arguments) >>)

\* result.get(key, default) on the dict a tool call returned
PyGet(result, key, default) == DictGet(result.dict, key, default)

\* async def list_emails(self, folder="inbox", limit=50, unread_only=False)
OutlookEmail_list_emails_params ==
    << Param("folder", "str", FALSE, PyStr("inbox")),
       Param("limit", "int", FALSE, PyInt(50)),
       Param("unread_only", "bool", FALSE, PyBool(FALSE)) >>

\* OutlookEmail.list_emails(**kwargs) of the reference implementation
OutlookEmail_list_emails(kwargs) ==
    LET b == Bind(OutlookEmail_list_emails_params, kwargs)
    IN  IF b.kind = "raise" THEN Done(b, << >>)
        ELSE LET c == ToolCalled("outlook_list_emails",
                                 [folder |-> b.value["folder"],
                                  limit |-> b.value["limit"],
                                  unreadOnly |-> b.value["unread_only"]])
             IN  Done(Return(PyGet(c.out.value, "emails", PyList(<< >>))), c.sent)

\* async def search_emails(self, query, limit=50)
OutlookEmail_search_emails_params ==
    << Param("query", "str", TRUE, PyNone),
       Param("limit", "int", FALSE, PyInt(50)) >>

\* OutlookEmail.search_emails(**kwargs) of the reference implementation
OutlookEmail_search_emails(kwargs) ==
    LET b == Bind(OutlookEmail_search_emails_params, kwargs)
    IN  IF b.kind = "raise" THEN Done(b, << >>)
        ELSE LET c == ToolCalled("outlook_search_emails",
                                 [query |-> b.value["query"],
                                  limit |-> b.value["limit"]])
             IN  Done(Return(PyGet(c.out.value, "emails", PyList(<< >>))), c.sent)

\* async def send_email(self, to, subject, body, cc=None)
OutlookEmail_send_email_params ==
    << Param("to", "list", TRUE, PyNone),
       Param("subject", "str", TRUE, PyNone),
       Param("body", "str", TRUE, PyNone),
       Param("cc", "list", FALSE, PyNone) >>

\* OutlookEmail.send_email(**kwargs) of the reference implementation
OutlookEmail_send_email(kwargs) ==
    LET b == Bind(OutlookEmail_send_email_params, kwargs)
    IN  IF b.kind = "raise" THEN Done(b, << >>)
        ELSE ToolCalled("outlook_send_email",
                        [to |-> b.value["to"],
                         subject |-> b.value["subject"],
                         body |-> b.value["body"],
                         cc |-> Or(b.value["cc"], PyList(<< >>))])

\* async def mark_read(self, email_id)
OutlookEmail_mark_read_params ==
    << Param("email_id", "str", TRUE, PyNone) >>

\* OutlookEmail.mark_read(**kwargs) of the reference implementation
OutlookEmail_mark_read(kwargs) ==
    LET b == Bind(OutlookEmail_mark_read_params, kwargs)
    IN  IF b.kind = "raise" THEN Done(b, << >>)
        ELSE LET c == ToolCalled("outlook_mark_read",
                                 [emailId |-> b.value["email_id"]])
             IN  Done(Return(PyGet(c.out.value, "success", PyBool(FALSE))), c.sent)

\* async def list_events(self, start_date=None, end_date=None, limit=50)
OutlookCalendar_list_events_params ==
    << Param("start_date", "str", FALSE, PyNone),
       Param("end_date", "str", FALSE, PyNone),
       Param("limit", "int", FALSE, PyInt(50)) >>

\* OutlookCalendar.list_events(**kwargs) of the reference implementation
OutlookCalendar_list_events(kwargs) ==
    LET b == Bind(OutlookCalendar_list_events_params, kwargs)
    IN  IF b.kind = "raise" THEN Done(b, << >>)
        ELSE LET c == ToolCalled("outlook_list_events",
                                 [startDate |-> b.value["start_date"],
                                  endDate |-> b.value["end_date"],
                                  limit |-> b.value["limit"]])
             IN  Done(Return(PyGet(c.out.value, "events", PyList(<< >>))), c.sent)

\* async def create_event(self, subject, start, end, attendees=None, location=None)
OutlookCalendar_create_event_params ==
    << Param("subject", "str", TRUE, PyNone),
       Param("start", "str", TRUE, PyNone),
       Param("end", "str", TRUE, PyNone),
       Param("attendees", "list", FALSE, PyNone),
       Param("location", "str", FALSE, PyNone) >>

\* OutlookCalendar.create_event(**kwargs) of the reference implementation
OutlookCalendar_create_event(kwargs) ==
    LET b == Bind(OutlookCalendar_create_event_params, kwargs)
    IN  IF b.kind = "raise" THEN Done(b, << >>)
        ELSE ToolCalled("outlook_create_event",
                        [subject |-> b.value["subject"],
                         start |-> b.value["start"],
                         end |-> b.value["end"],
                         attendees |-> Or(b.value["attendees"], PyList(<< >>)),
                         location |-> b.value["location"]])

-----------------------------------------------------------------------------
(* outlook_mcp_thin_wrapper.py: OutlookEmail                                *)

\* one email of the thin wrapper's mock data
ThinEmail(id, subject, from, date, is_read, body_preview) ==
    PyDict(<< <<"id", PyStr(id)>>,
              <<"subject", PyStr(subject)>>,
              <<"from", PyStr(from)>>,
              <<"date", PyStr(date)>>,
              <<"is_read", PyBool(is_read)>>,
              <<"body_preview", PyStr(body_preview)>> >>)

\* def list_emails(self, folder="inbox", limit=50, unread_only=False)
ThinOutlookEmail_list_emails_params ==
    << Param("folder", "str", FALSE, PyStr("inbox")),
       Param("limit", "int", FALSE, PyInt(50)),
       Param("unread_only", "bool", FALSE, PyBool(FALSE)) >>

\* OutlookEmail.list_emails(**kwargs) of the thin wrapper: it calls no client
ThinOutlookEmail_list_emails(kwargs) ==
    LET b == Bind(ThinOutlookEmail_list_emails_params, kwargs)
    IN  IF b.kind = "raise" THEN Done(b, << >>)
        ELSE Done(Return(PyList(<<
                ThinEmail("msg_001", "Q4 Planning Meeting", "manager@company.com",
                          "2025-11-08T10:00:00Z", FALSE,
                          "Let's schedule the Q4 planning session..."),
                ThinEmail("msg_002", "Code Review Request", "dev@company.com",
                          "2025-11-08T09:30:00Z", TRUE,
                          "Please review PR #123...") >>)),
                  << >>)

-----------------------------------------------------------------------------
(* The client a wrapper is constructed with (self.client = mcp_client).    *)

\* the clients tried: the repository's mock client, which answers every
\* call, and a client whose call raises (the MCP server cannot be reached)
Clients == {"mock", "raises"}

\* a wrapper method run on the given client. Every wrapper method hands its
\* request to self.client in a plain call with no try/except around it, so
\* an exception raised by the client leaves the wrapper method unchanged;
\* done is what the method does on the mock client.
WithClient(client, done) ==
    IF client = "mock" \/ done.sent = << >>
    THEN done
    ELSE Done(Raise("ConnectionError", "MCP server unreachable"), done.sent)

-----------------------------------------------------------------------------
(* Calling the registries beyond what they define.                         *)

\* the three registry classes
RegistryClasses == {"MCPToolRegistry", "MCPFilesystemDiscovery", "OutlookMCPRegistry"}

\* the attributes a registry object has: the methods its class defines and
\* what __init__ sets
ClassAttributes(cls) ==
    CASE cls = "MCPToolRegistry" -> {"list_available_tools", "get_tool_docs"}
      [] cls = "MCPFilesystemDiscovery" ->
            {"__init__", "list_available_tools", "read_tool_module", "tools_dir"}
      [] cls = "OutlookMCPRegistry" -> {"list_tools", "get_tool_info"}

\* registry.<name>(...): Python looks the attribute up before it calls it
CallMethod(cls, name) ==
    IF name \in ClassAttributes(cls)
    THEN Return(name)
    ELSE Raise("AttributeError", [object |-> cls, attribute |-> name])

\* what the listing method of each registry class returns
ListingOf(cls) ==
    CASE cls = "MCPToolRegistry" -> MCPToolRegistry_list_available_tools
      [] cls = "MCPFilesystemDiscovery" -> MCPFilesystemDiscovery_list_available_tools
      [] cls = "OutlookMCPRegistry" -> OutlookMCPRegistry_list_tools

\* registry.<listing method>(**kwargs): none of the three listing methods
\* declares a parameter (besides self)
ListingCalled(cls, kwargs) ==
    LET b == Bind(<< >>, kwargs)
    IN  IF b.kind = "raise" THEN b ELSE Return(ListingOf(cls))

-----------------------------------------------------------------------------
(* The calls a client of the registries can make, one action per method.   *)

ResolveOps == {"get_tool_docs", "read_tool_module", "get_tool_info"}

\* the tool_name arguments tried with each resolve method: every name its
\* table knows, every entry its listing returns, and a name it has never seen
ToolNameInputs(op) ==
    CASE op = "get_tool_docs" ->
            {"FileSystemTools", "DatabaseTools", "APITools"}
            \cup DictKeys(MCPToolRegistry_list_available_tools)
            \cup {"nonexistent"}
      [] op = "read_tool_module" ->
            read_tool_module_known
            \cup Elems(MCPFilesystemDiscovery_list_available_tools)
            \cup {"nonexistent.py"}
      [] op = "get_tool_info" ->
            DictKeys(get_tool_info_info)
            \cup Elems(OutlookMCPRegistry_list_tools)
            \cup {"nonexistent"}

ResolveKeys ==
    UNION {{<<op, n>> : n \in ToolNameInputs(op)} : op \in ResolveOps}

Callers == 1..NumCallers

\* the tool names tried with the clients: the five tools the wrappers call,
\* and a name no wrapper and no server knows
InvokeTools ==
    {"outlook_list_emails", "outlook_search_emails", "outlook_send_email",
     "outlook_list_events", "outlook_create_event", "nonexistent"}

\* the arguments tried: a declared name of search_emails, a declared name of
\* create_event and send_email, the declared name of mark_read, and a name no
\* tool declares; a str and an int
ArgNames == {"query", "subject", "email_id", "bogus"}
ArgValues == {PyStr("Q4"), PyInt(7)}
ArgMaps ==
    UNION {[D -> ArgValues] : D \in {S \in SUBSET ArgNames : Cardinality(S) <= MaxArgs}}

\* the names tried with register: one name each registry has a definition
\* for, and a new one
RegisterNames(cls) ==
    CASE cls = "MCPToolRegistry" -> {"FileSystemTools", "new_tool"}
      [] cls = "MCPFilesystemDiscovery" -> {"filesystem.py", "new_tool"}
      [] cls = "OutlookMCPRegistry" -> {"email", "new_tool"}

\* the listing methods
ListingOps ==
    {"MCPToolRegistry.list_available_tools",
     "MCPFilesystemDiscovery.list_available_tools",
     "OutlookMCPRegistry.list_tools"}

\* MCPFilesystemDiscovery.__init__(tools_directory): the attributes it sets
MCPFilesystemDiscovery_init(tools_directory) == [tools_dir |-> tools_directory]

\* what a listing method leaves behind: the outcome the caller saw, whether
\* the method had been called before, and the outcome added to those seen
Listed(op, out) ==
    /\ last' = [op |-> op, out |-> out, repeat |-> listings[op] # {}]
    /\ listings' = [listings EXCEPT ![op] = @ \cup {out}]

RECURSIVE SumOver(_, _)
SumOver(f, S) ==
    IF S = {} THEN 0
    ELSE LET k == CHOOSE x \in S : TRUE IN f[k] + SumOver(f, S \ {k})

TotalResolves == SumOver(resolveCalls, ResolveKeys)

Init ==
    /\ last = [op |-> "none"]
    /\ docstrings = [FileSystemTools |-> FileSystemTools_doc,
                     DatabaseTools |-> DatabaseTools_doc,
                     APITools |-> APITools_doc]
    /\ history = << >>
    /\ storeQueries = [k \in ResolveKeys |-> 0]
    /\ resolveCalls = [k \in ResolveKeys |-> 0]
    /\ returned = [k \in ResolveKeys |-> {}]
    /\ pc = [c \in Callers |-> "idle"]
    /\ callerArg = [c \in Callers |-> ""]
    /\ callerTools = [c \in Callers |-> <<>>]
    /\ callerOut = [c \in Callers |-> [kind |-> "none"]]
    /\ listings = [op \in ListingOps |-> {}]
    /\ discovery = MCPFilesystemDiscovery_init("/mcp_tools")
    /\ inflight = [c \in Callers |-> [state |-> "none"]]
    /\ frame = [fn |-> "none", pc |-> "none"]
    /\ calls = << >>
    /\ stdout = << >>

\* what every resolve method leaves behind: one more lookup in its table, one
\* more completed call, and the outcome the caller saw
Resolved(op, tool_name, out) ==
    /\ last' = [op |-> op, arg |-> tool_name, out |-> out, lookups |-> 1]
    /\ storeQueries' = [storeQueries EXCEPT ![<<op, tool_name>>] = @ + 1]
    /\ resolveCalls' = [resolveCalls EXCEPT ![<<op, tool_name>>] = @ + 1]
    /\ returned' = [returned EXCEPT ![<<op, tool_name>>] = @ \cup {out}]

\* registry.list_available_tools() on MCPToolRegistry
ListAvailableTools ==
    /\ Listed("MCPToolRegistry.list_available_tools", Return(MCPToolRegistry_list_available_tools))
    /\ UNCHANGED <<docstrings, history, storeQueries, resolveCalls, returned,
                   pc, callerArg, callerTools, callerOut, discovery, inflight,
                   frame, calls, stdout>>

\* registry.get_tool_docs(tool_name)
GetToolDocs(tool_name) ==
    /\ TotalResolves < MaxResolves
    /\ Resolved("get_tool_docs", tool_name,
                Return(MCPToolRegistry_get_tool_docs(tool_name)))
    /\ UNCHANGED <<docstrings, history, pc, callerArg, callerTools, callerOut,
                   listings, discovery, inflight,
                   frame, calls, stdout>>

\* discovery.list_available_tools() on MCPFilesystemDiscovery
FsListAvailableTools ==
    /\ Listed("MCPFilesystemDiscovery.list_available_tools", Return(MCPFilesystemDiscovery_list_available_tools))
    /\ UNCHANGED <<docstrings, history, storeQueries, resolveCalls, returned,
                   pc, callerArg, callerTools, callerOut, discovery, inflight,
                   frame, calls, stdout>>

\* discovery.read_tool_module(tool_name)
ReadToolModule(tool_name) ==
    /\ TotalResolves < MaxResolves
    /\ Resolved("read_tool_module", tool_name,
                Return(MCPFilesystemDiscovery_read_tool_module(tool_name)))
    /\ UNCHANGED <<docstrings, history, pc, callerArg, callerTools, callerOut,
                   listings, discovery, inflight,
                   frame, calls, stdout>>

\* registry.list_tools() on OutlookMCPRegistry
ListTools ==
    /\ Listed("OutlookMCPRegistry.list_tools", Return(OutlookMCPRegistry_list_tools))
    /\ UNCHANGED <<docstrings, history, storeQueries, resolveCalls, returned,
                   pc, callerArg, callerTools, callerOut, discovery, inflight,
                   frame, calls, stdout>>

\* registry.get_tool_info(tool_name)
GetToolInfo(tool_name) ==
    /\ TotalResolves < MaxResolves
    /\ Resolved("get_tool_info", tool_name,
                Return(OutlookMCPRegistry_get_tool_info(tool_name)))
    /\ UNCHANGED <<docstrings, history, pc, callerArg, callerTools, callerOut,
                   listings, discovery, inflight,
                   frame, calls, stdout>>

\* registry.<listing method>(category=category)
Discover(cls, category) ==
    /\ last' = [op |-> "discover", registry |-> cls, category |-> category,
                out |-> ListingCalled(cls, [category |-> PyStr(category)])]
    /\ UNCHANGED <<docstrings, history, storeQueries, resolveCalls, returned,
                   pc, callerArg, callerTools, callerOut,
                   listings, discovery, inflight,
                   frame, calls, stdout>>

\* registry.register(descriptor), descriptor a tool of the given name
Register(cls, tool_name) ==
    /\ last' = [op |-> "register", registry |-> cls, arg |-> tool_name,
                out |-> CallMethod(cls, "register")]
    /\ UNCHANGED <<docstrings, history, storeQueries, resolveCalls, returned,
                   pc, callerArg, callerTools, callerOut,
                   listings, discovery, inflight,
                   frame, calls, stdout>>

\* what a call through a client or a wrapper leaves behind; none of them
\* consults a registry
Invoked(client, op, tool_name, arguments, done) ==
    [op |-> op, client |-> client, tool |-> tool_name, args |-> arguments,
     out |-> done.out, sent |-> done.sent, lookups |-> 0]

\* mcp_client.call(tool_name, **arguments)
ClientCall(tool_name, arguments) ==
    /\ last' = Invoked("mock", "MCPClient.call", tool_name, arguments,
                       ClientCalled(tool_name, arguments))
    /\ UNCHANGED <<docstrings, history, storeQueries, resolveCalls, returned,
                   pc, callerArg, callerTools, callerOut,
                   listings, discovery, inflight,
                   frame, calls, stdout>>

\* await client.call_tool(tool_name, arguments)
CallTool(tool_name, arguments) ==
    /\ last' = Invoked("mock", "OutlookMCPClient.call_tool", tool_name, arguments,
                       ToolCalled(tool_name, arguments))
    /\ UNCHANGED <<docstrings, history, storeQueries, resolveCalls, returned,
                   pc, callerArg, callerTools, callerOut,
                   listings, discovery, inflight,
                   frame, calls, stdout>>

\* email.list_emails(**kwargs), email an OutlookEmailWrapper
EmailListEmails(client, kwargs) ==
    /\ last' = Invoked(client, "OutlookEmailWrapper.list_emails", "outlook_list_emails", kwargs,
                       WithClient(client, OutlookEmailWrapper_list_emails(kwargs)))
    /\ UNCHANGED <<docstrings, history, storeQueries, resolveCalls, returned,
                   pc, callerArg, callerTools, callerOut,
                   listings, discovery, inflight,
                   frame, calls, stdout>>

\* email.search_emails(**kwargs)
EmailSearchEmails(client, kwargs) ==
    /\ last' = Invoked(client, "OutlookEmailWrapper.search_emails", "outlook_search_emails", kwargs,
                       WithClient(client, OutlookEmailWrapper_search_emails(kwargs)))
    /\ UNCHANGED <<docstrings, history, storeQueries, resolveCalls, returned,
                   pc, callerArg, callerTools, callerOut,
                   listings, discovery, inflight,
                   frame, calls, stdout>>

\* email.send_email(**kwargs)
EmailSendEmail(client, kwargs) ==
    /\ last' = Invoked(client, "OutlookEmailWrapper.send_email", "outlook_send_email", kwargs,
                       WithClient(client, OutlookEmailWrapper_send_email(kwargs)))
    /\ UNCHANGED <<docstrings, history, storeQueries, resolveCalls, returned,
                   pc, callerArg, callerTools, callerOut,
                   listings, discovery, inflight,
                   frame, calls, stdout>>

\* calendar.list_events(**kwargs), calendar an OutlookCalendarWrapper
CalendarListEvents(client, kwargs) ==
    /\ last' = Invoked(client, "OutlookCalendarWrapper.list_events", "outlook_list_events", kwargs,
                       WithClient(client, OutlookCalendarWrapper_list_events(kwargs)))
    /\ UNCHANGED <<docstrings, history, storeQueries, resolveCalls, returned,
                   pc, callerArg, callerTools, callerOut,
                   listings, discovery, inflight,
                   frame, calls, stdout>>

\* calendar.create_event(**kwargs)
CalendarCreateEvent(client, kwargs) ==
    /\ last' = Invoked(client, "OutlookCalendarWrapper.create_event", "outlook_create_event", kwargs,
                       WithClient(client, OutlookCalendarWrapper_create_event(kwargs)))
    /\ UNCHANGED <<docstrings, history, storeQueries, resolveCalls, returned,
                   pc, callerArg, callerTools, callerOut,
                   listings, discovery, inflight,
                   frame, calls, stdout>>

\* await email.list_emails(**kwargs), email an OutlookEmail of the reference implementation
RefListEmails(client, kwargs) ==
    /\ last' = Invoked(client, "OutlookEmail.list_emails", "outlook_list_emails", kwargs,
                       WithClient(client, OutlookEmail_list_emails(kwargs)))
    /\ UNCHANGED <<docstrings, history, storeQueries, resolveCalls, returned,
                   pc, callerArg, callerTools, callerOut,
                   listings, discovery, inflight,
                   frame, calls, stdout>>

\* await email.search_emails(**kwargs)
RefSearchEmails(client, kwargs) ==
    /\ last' = Invoked(client, "OutlookEmail.search_emails", "outlook_search_emails", kwargs,
                       WithClient(client, OutlookEmail_search_emails(kwargs)))
    /\ UNCHANGED <<docstrings, history, storeQueries, resolveCalls, returned,
                   pc, callerArg, callerTools, callerOut,
                   listings, discovery, inflight,
                   frame, calls, stdout>>

\* await email.send_email(**kwargs)
RefSendEmail(client, kwargs) ==
    /\ last' = Invoked(client, "OutlookEmail.send_email", "outlook_send_email", kwargs,
                       WithClient(client, OutlookEmail_send_email(kwargs)))
    /\ UNCHANGED <<docstrings, history, storeQueries, resolveCalls, returned,
                   pc, callerArg, callerTools, callerOut,
                   listings, discovery, inflight,
                   frame, calls, stdout>>

\* await email.mark_read(**kwargs)
RefMarkRead(client, kwargs) ==
    /\ last' = Invoked(client, "OutlookEmail.mark_read", "outlook_mark_read", kwargs,
                       WithClient(client, OutlookEmail_mark_read(kwargs)))
    /\ UNCHANGED <<docstrings, history, storeQueries, resolveCalls, returned,
                   pc, callerArg, callerTools, callerOut,
                   listings, discovery, inflight,
                   frame, calls, stdout>>

\* await calendar.list_events(**kwargs), calendar an OutlookCalendar
RefListEvents(client, kwargs) ==
    /\ last' = Invoked(client, "OutlookCalendar.list_events", "outlook_list_events", kwargs,
                       WithClient(client, OutlookCalendar_list_events(kwargs)))
    /\ UNCHANGED <<docstrings, history, storeQueries, resolveCalls, returned,
                   pc, callerArg, callerTools, callerOut,
                   listings, discovery, inflight,
                   frame, calls, stdout>>

\* await calendar.create_event(**kwargs)
RefCreateEvent(client, kwargs) ==
    /\ last' = Invoked(client, "OutlookCalendar.create_event", "outlook_create_event", kwargs,
                       WithClient(client, OutlookCalendar_create_event(kwargs)))
    /\ UNCHANGED <<docstrings, history, storeQueries, resolveCalls, returned,
                   pc, callerArg, callerTools, callerOut,
                   listings, discovery, inflight,
                   frame, calls, stdout>>

Next ==
    \/ ListAvailableTools
    \/ \E n \in ToolNameInputs("get_tool_docs") : GetToolDocs(n)
    \/ FsListAvailableTools
    \/ \E n \in ToolNameInputs("read_tool_module") : ReadToolModule(n)
    \/ ListTools
    \/ \E n \in ToolNameInputs("get_tool_info") : GetToolInfo(n)

\* the registries: discovery and resolution, in any order
Spec == Init /\ [][Next]_vars

NextDiscover ==
    \/ ListAvailableTools
    \/ FsListAvailableTools
    \/ ListTools
    \* the categories tried: one that MCPToolRegistry lists and one that no
    \* registry lists
    \/ \E cls \in RegistryClasses, c \in {"FileSystemTools", "nonexistent"} :
          Discover(cls, c)
    \/ \E cls \in RegistryClasses : \E n \in RegisterNames(cls) : Register(cls, n)
    \/ \E n \in ToolNameInputs("get_tool_docs") : GetToolDocs(n)
    \/ \E n \in read_tool_module_known : ReadToolModule(n)

\* the listing side of the registries: listings with and without a category
\* and attempts to register, with resolve calls in between
SpecDiscover == Init /\ [][NextDiscover]_vars

NextInvoke ==
    \/ \E t \in InvokeTools, a \in ArgMaps : ClientCall(t, a)
    \/ \E t \in InvokeTools, a \in ArgMaps : CallTool(t, a)
    \/ \E c \in Clients, a \in ArgMaps : EmailListEmails(c, a)
    \/ \E c \in Clients, a \in ArgMaps : EmailSearchEmails(c, a)
    \/ \E c \in Clients, a \in ArgMaps : EmailSendEmail(c, a)
    \/ \E c \in Clients, a \in ArgMaps : CalendarListEvents(c, a)
    \/ \E c \in Clients, a \in ArgMaps : CalendarCreateEvent(c, a)
    \/ \E c \in Clients, a \in ArgMaps : RefListEmails(c, a)
    \/ \E c \in Clients, a \in ArgMaps : RefSearchEmails(c, a)
    \/ \E c \in Clients, a \in ArgMaps : RefSendEmail(c, a)
    \/ \E c \in Clients, a \in ArgMaps : RefMarkRead(c, a)
    \/ \E c \in Clients, a \in ArgMaps : RefListEvents(c, a)
    \/ \E c \in Clients, a \in ArgMaps : RefCreateEvent(c, a)

\* the clients and the wrappers: tool calls, in any order
SpecInvoke == Init /\ [][NextInvoke]_vars

-----------------------------------------------------------------------------
(* One client's session with the registries and the MCP client: listings,  *)
(* listings by category, resolve calls, register attempts and tool calls   *)
(* in any order. Every completed call is appended to history with what it  *)
(* returned or raised.                                                      *)

\* calls per session
MaxHistory == 5

\* registry.<listing method>()
SessionList(cls) ==
    /\ Len(history) < MaxHistory
    /\ Listed(cls \o (IF cls = "OutlookMCPRegistry" THEN ".list_tools"
                                                     ELSE ".list_available_tools"),
              ListingCalled(cls, << >>))
    /\ history' = Append(history, last')
    /\ UNCHANGED <<docstrings, storeQueries, resolveCalls, returned,
                   pc, callerArg, callerTools, callerOut,
                   discovery, inflight, frame, calls, stdout>>

\* registry.<listing method>(category=category)
SessionDiscover(cls, category) ==
    /\ Len(history) < MaxHistory
    /\ last' = [op |-> "discover", registry |-> cls, category |-> category,
                out |-> ListingCalled(cls, [category |-> PyStr(category)])]
    /\ history' = Append(history, last')
    /\ UNCHANGED <<docstrings, storeQueries, resolveCalls, returned,
                   pc, callerArg, callerTools, callerOut,
                   listings, discovery, inflight, frame, calls, stdout>>

\* registry.get_tool_docs(tool_name), discovery.read_tool_module(tool_name)
\* or registry.get_tool_info(tool_name)
SessionResolve(op, tool_name) ==
    /\ Len(history) < MaxHistory
    /\ Resolved(op, tool_name,
                Return(CASE op = "get_tool_docs" -> MCPToolRegistry_get_tool_docs(tool_name)
                         [] op = "read_tool_module" ->
                                MCPFilesystemDiscovery_read_tool_module(tool_name)
                         [] op = "get_tool_info" ->
                                OutlookMCPRegistry_get_tool_info(tool_name)))
    /\ history' = Append(history, last')
    /\ UNCHANGED <<docstrings, pc, callerArg, callerTools, callerOut,
                   listings, discovery, inflight, frame, calls, stdout>>

\* registry.register(descriptor), descriptor a tool of the given name
SessionRegister(cls, tool_name) ==
    /\ Len(history) < MaxHistory
    /\ last' = [op |-> "register", registry |-> cls, arg |-> tool_name,
                out |-> CallMethod(cls, "register")]
    /\ history' = Append(history, last')
    /\ UNCHANGED <<docstrings, storeQueries, resolveCalls, returned,
                   pc, callerArg, callerTools, callerOut,
                   listings, discovery, inflight, frame, calls, stdout>>

\* a tool call that also rebinds FileSystemTools.__doc__ to the name of the
\* tool it ran
SessionInvoke_documenting(tool_name, arguments) ==
    /\ Len(history) < MaxHistory
    /\ last' = Invoked("mock", "MCPClient.call", tool_name, arguments,
                       ClientCalled(tool_name, arguments))
    /\ history' = Append(history, last')
    /\ docstrings' = [docstrings EXCEPT !.FileSystemTools = tool_name]
    /\ UNCHANGED <<storeQueries, resolveCalls, returned,
                   pc, callerArg, callerTools, callerOut,
                   listings, discovery, inflight, frame, calls, stdout>>

\* mcp_client.call(tool_name, **arguments): a tool call, as every wrapper
\* method of the production example makes it
SessionInvoke(tool_name, arguments) ==
    /\ Len(history) < MaxHistory
    /\ last' = Invoked("mock", "MCPClient.call", tool_name, arguments,
                       ClientCalled(tool_name, arguments))
    /\ history' = Append(history, last')
    /\ UNCHANGED <<docstrings, storeQueries, resolveCalls, returned,
                   pc, callerArg, callerTools, callerOut,
                   listings, discovery, inflight, frame, calls, stdout>>

NextSession ==
    \/ \E cls \in RegistryClasses : SessionList(cls)
    \/ SessionDiscover("MCPToolRegistry", "FileSystemTools")
    \/ \E k \in {<<"get_tool_docs", "FileSystemTools">>,
                  <<"read_tool_module", "database.py">>,
                  <<"get_tool_info", "email">>} : SessionResolve(k[1], k[2])
    \/ SessionRegister("MCPFilesystemDiscovery", "new_tool")
    \/ \E a \in {<< >>, [query |-> PyStr("Q4")]} :
          SessionInvoke(IF a = << >> THEN "outlook_list_emails"
                                     ELSE "outlook_search_emails", a)

\* a session of at most MaxHistory calls
SpecSession == Init /\ [][NextSession]_vars

-----------------------------------------------------------------------------
(* Several threads inside MCPToolRegistry.get_tool_docs at once. The       *)
(* method has two steps: it builds its local `tools` dict, then looks      *)
(* tool_name up in it and returns.                                         *)

\* a thread calls get_tool_docs(tool_name)
ConcEnter(c, tool_name) ==
    /\ pc[c] = "idle"
    /\ pc' = [pc EXCEPT ![c] = "build"]
    /\ callerArg' = [callerArg EXCEPT ![c] = tool_name]
    /\ UNCHANGED <<docstrings, history, last, storeQueries, resolveCalls, returned, callerTools, callerOut,
                   listings, discovery, inflight,
                   frame, calls, stdout>>

\* tools = {...}
ConcBuild(c) ==
    /\ pc[c] = "build"
    /\ callerTools' = [callerTools EXCEPT ![c] = get_tool_docs_tools]
    /\ pc' = [pc EXCEPT ![c] = "get"]
    /\ UNCHANGED <<docstrings, history, last, storeQueries, resolveCalls, returned, callerArg, callerOut,
                   listings, discovery, inflight,
                   frame, calls, stdout>>

\* return tools.get(tool_name, "Tool not found")
ConcGet(c) ==
    /\ pc[c] = "get"
    /\ LET out == Return(DictGet(callerTools[c], callerArg[c], "Tool not found"))
       IN  /\ callerOut' = [callerOut EXCEPT ![c] = out]
           /\ Resolved("get_tool_docs", callerArg[c], out)
    /\ pc' = [pc EXCEPT ![c] = "done"]
    /\ UNCHANGED <<docstrings, history, callerArg, callerTools,
                   listings, discovery, inflight,
                   frame, calls, stdout>>

NextConc ==
    \/ \E c \in Callers, n \in ToolNameInputs("get_tool_docs") : ConcEnter(c, n)
    \/ \E c \in Callers : ConcBuild(c)
    \/ \E c \in Callers : ConcGet(c)

\* concurrent callers of get_tool_docs, their steps interleaved
SpecConc == Init /\ [][NextConc]_vars

-----------------------------------------------------------------------------
(* list_emails called with a folder, a limit and unread_only.              *)

\* the keyword arguments tried with list_emails: three folders, every limit
\* up to MaxLimit, unread_only set and not
ListEmailsArgs ==
    {[folder |-> PyStr(f), limit |-> PyInt(n), unread_only |-> PyBool(u)] :
        f \in {"inbox", "sent", "drafts"}, n \in 0..MaxLimit, u \in BOOLEAN}

\* email.list_emails(**kwargs), email an OutlookEmail of the thin wrapper
ThinListEmails(kwargs) ==
    /\ last' = Invoked("none", "thin_wrapper.OutlookEmail.list_emails",
                       "outlook_list_emails", kwargs,
                       ThinOutlookEmail_list_emails(kwargs))
    /\ UNCHANGED <<docstrings, history, storeQueries, resolveCalls, returned,
                   pc, callerArg, callerTools, callerOut,
                   listings, discovery, inflight,
                   frame, calls, stdout>>

NextListEmails ==
    \/ \E a \in ListEmailsArgs : ThinListEmails(a)
    \/ \E a \in ListEmailsArgs : RefListEmails("mock", a)
    \/ \E a \in ListEmailsArgs : EmailListEmails("mock", a)

\* the three list_emails methods on their mock data
SpecListEmails == Init /\ [][NextListEmails]_vars

-----------------------------------------------------------------------------
(* A wrapper call and the client it waits for. The wrapper method hands    *)
(* its request to self.client and waits for the client's call to end:      *)
(* `return self.client.call(...)` blocks the calling thread,               *)
(* `result = await self.client.call_tool(...)` suspends the calling task.  *)
(* The client's call ends when the MCP server has answered or the          *)
(* connection has failed; how long that takes is up to the server.         *)

\* the wrapper methods followed step by step
AwaitOps == {"OutlookEmailWrapper.list_emails", "OutlookEmail.list_emails"}

\* what the wrapper method does on a client that answers
AwaitDone(op, kwargs) ==
    IF op = "OutlookEmailWrapper.list_emails"
    THEN OutlookEmailWrapper_list_emails(kwargs)
    ELSE OutlookEmail_list_emails(kwargs)

\* a caller calls the wrapper method: Python binds the arguments, and the
\* method hands its request to the client and waits
AwaitCall(c, op, kwargs) ==
    /\ pc[c] = "idle"
    /\ LET done == AwaitDone(op, kwargs)
       IN  IF done.sent = << >>
           THEN /\ pc' = [pc EXCEPT ![c] = "returned"]
                /\ callerOut' = [callerOut EXCEPT ![c] = done.out]
                /\ inflight' = [inflight EXCEPT ![c] =
                                    [state |-> "none", op |-> op, kwargs |-> kwargs]]
           ELSE /\ pc' = [pc EXCEPT ![c] = "awaiting"]
                /\ callerOut' = callerOut
                /\ inflight' = [inflight EXCEPT ![c] =
                                    [state |-> "pending", op |-> op, kwargs |-> kwargs]]
    /\ callerArg' = [callerArg EXCEPT ![c] = op]
    /\ UNCHANGED <<docstrings, history, last, storeQueries, resolveCalls, returned, callerTools,
                   listings, discovery,
                   frame, calls, stdout>>

\* the MCP server answers the request
TransportAnswer(c) ==
    /\ inflight[c].state = "pending"
    /\ inflight' = [inflight EXCEPT ![c].state = "answered"]
    /\ UNCHANGED <<docstrings, history, last, storeQueries, resolveCalls, returned,
                   pc, callerArg, callerTools, callerOut, listings, discovery,
                   frame, calls, stdout>>

\* the connection to the MCP server fails
TransportRaise(c) ==
    /\ inflight[c].state = "pending"
    /\ inflight' = [inflight EXCEPT ![c].state = "raised"]
    /\ UNCHANGED <<docstrings, history, last, storeQueries, resolveCalls, returned,
                   pc, callerArg, callerTools, callerOut, listings, discovery,
                   frame, calls, stdout>>

\* the client's call has ended and the wrapper method goes on: it returns
\* what it makes of the answer, or the client's exception leaves it
AwaitResume(c) ==
    /\ pc[c] = "awaiting"
    /\ inflight[c].state \in {"answered", "raised"}
    /\ LET done == AwaitDone(inflight[c].op, inflight[c].kwargs)
           client == IF inflight[c].state = "answered" THEN "mock" ELSE "raises"
       IN  callerOut' = [callerOut EXCEPT ![c] = WithClient(client, done).out]
    /\ pc' = [pc EXCEPT ![c] = "returned"]
    /\ UNCHANGED <<docstrings, history, last, storeQueries, resolveCalls, returned,
                   callerArg, callerTools, listings, discovery, inflight,
                   frame, calls, stdout>>

NextAwait ==
    \* the keyword arguments tried: none, and a timeout
    \/ \E c \in Callers, op \in AwaitOps, a \in {<< >>, [timeout |-> PyInt(30)]} :
          AwaitCall(c, op, a)
    \/ \E c \in Callers : TransportAnswer(c)
    \/ \E c \in Callers : TransportRaise(c)
    \/ \E c \in Callers : AwaitResume(c)

\* callers inside wrapper calls, each waiting for its client. A caller whose
\* client call has ended is resumed (the thread runs on, the event loop
\* schedules the task); nothing obliges the server to answer.
SpecAwait ==
    Init /\ [][NextAwait]_vars /\ \A c \in Callers : WF_vars(AwaitResume(c))

-----------------------------------------------------------------------------
(* Vocabulary of the properties.                                           *)

DiscoverOps ==
    {"MCPToolRegistry.list_available_tools",
     "MCPFilesystemDiscovery.list_available_tools",
     "OutlookMCPRegistry.list_tools"}

InvokeOps ==
    {"MCPClient.call", "OutlookMCPClient.call_tool",
     "OutlookEmailWrapper.list_emails", "OutlookEmailWrapper.search_emails",
     "OutlookEmailWrapper.send_email", "OutlookCalendarWrapper.list_events",
     "OutlookCalendarWrapper.create_event"}

\* how often x occurs in a list
Count(x, seq) == Cardinality({i \in 1..Len(seq) : seq[i] = x})

\* the keys of a dict, in the order the dict lists them
KeySeq(items) == [i \in 1..Len(items) |-> items[i][1]]

\* every string a listing hands to its caller
ListedTexts(l) ==
    IF l.op = "MCPToolRegistry.list_available_tools"
    THEN DictKeys(l.out.value)
         \cup UNION {Elems(l.out.value[i][2]) : i \in 1..Len(l.out.value)}
    ELSE Elems(l.out.value)

\* a bare name: no free text and no parameter list
IsBareName(text) == ~Contains(text, " ") /\ ~Contains(text, "(")

\* the names a resolve method has a definition for
Registered(op) ==
    CASE op = "get_tool_docs" -> DictKeys(get_tool_docs_tools)
      [] op = "read_tool_module" -> read_tool_module_known
      [] op = "get_tool_info" -> DictKeys(get_tool_info_info)

\* the entries of the listing that belongs to a resolve method
ListedFor(op) ==
    CASE op = "get_tool_docs" -> DictKeys(MCPToolRegistry_list_available_tools)
      [] op = "read_tool_module" -> Elems(MCPFilesystemDiscovery_list_available_tools)
      [] op = "get_tool_info" -> Elems(OutlookMCPRegistry_list_tools)

\* what a resolve method answers when it has no definition for the name
NoDefinitionAnswer(op, tool_name) ==
    IF op = "read_tool_module"
    THEN "# " \o tool_name \o " - Tool module"
    ELSE "Tool not found"

-----------------------------------------------------------------------------
(* C1..C7: discovery and resolution.                                       *)

\* C1: whenever a listing method has returned, every string in what it
\* returned is a bare tool or category name: none carries a parameter list
\* or description text.
C1_DiscoveryOnlyNames ==
    last.op \in DiscoverOps => \A text \in ListedTexts(last) : IsBareName(text)

\* C2: whenever MCPToolRegistry.list_available_tools or
\* MCPFilesystemDiscovery.list_available_tools has returned, every name its
\* resolve method has a definition for is listed exactly once, and no listed
\* name is listed twice.
C2_ListsEveryNameOnce ==
    /\ last.op = "MCPToolRegistry.list_available_tools" =>
          LET listed == KeySeq(last.out.value)
          IN  /\ \A n \in Registered("get_tool_docs") : Count(n, listed) = 1
              /\ \A n \in Elems(listed) : Count(n, listed) = 1
    /\ last.op = "MCPFilesystemDiscovery.list_available_tools" =>
          LET listed == last.out.value
          IN  /\ \A n \in Registered("read_tool_module") : Count(n, listed) = 1
              /\ \A n \in Elems(listed) : Count(n, listed) = 1

\* C2 witness: the filesystem listing has returned and names both modules
\* that read_tool_module has a text for.
C2_Witness ==
    /\ last.op = "MCPFilesystemDiscovery.list_available_tools"
    /\ Registered("read_tool_module") \subseteq Elems(last.out.value)

\* C3: whenever a resolve method has been called with an entry of its
\* listing, it returned that tool's definition, not its answer for a name it
\* has no definition for.
C3_ListedEntriesResolve ==
    (last.op \in ResolveOps /\ last.arg \in ListedFor(last.op)) =>
        /\ last.out.kind = "return"
        /\ last.out.value # NoDefinitionAnswer(last.op, last.arg)

\* C4: whenever a resolve method has been called with a name it has no
\* definition for, the call ended by raising NotFoundError.
C4_UnregisteredRaisesNotFound ==
    (last.op \in ResolveOps /\ last.arg \notin Registered(last.op)) =>
        /\ last.out.kind = "raise"
        /\ last.out.exc = "NotFoundError"

\* C5: for every registered name that has been resolved at least once, the
\* table behind its resolve method has been looked up for it exactly once.
C5_StoreQueriedOnce ==
    \A k \in ResolveKeys :
        (k[2] \in Registered(k[1]) /\ resolveCalls[k] >= 1) => storeQueries[k] = 1

\* the positions of a session's history strictly between two of them
Between(i, j) == (i + 1)..(j - 1)

\* the history entries that are listings, with or without a category
IsDiscovery(entry) == entry.op \in DiscoverOps \cup {"discover"}

\* C6: any two resolve calls of a session for the same registered name
\* returned the same value, whatever other resolve calls, listings and tool
\* calls were made in between.
C6_ResolveIdempotent ==
    \A i, j \in 1..Len(history) :
        (/\ i < j
         /\ history[i].op \in ResolveOps
         /\ history[j].op = history[i].op
         /\ history[j].arg = history[i].arg
         /\ history[i].arg \in Registered(history[i].op)) =>
            history[j].out = history[i].out

\* C6 witness: a registered name was resolved twice and, between the two
\* calls, another name was resolved, a listing was made and a tool was
\* called.
C6_Witness ==
    \E i, j \in 1..Len(history) :
        /\ i < j
        /\ history[i].op \in ResolveOps
        /\ history[j].op = history[i].op
        /\ history[j].arg = history[i].arg
        /\ history[i].arg \in Registered(history[i].op)
        /\ history[j].out.kind = "return"
        /\ \E k \in Between(i, j) :
             history[k].op \in ResolveOps /\ history[k].op # history[i].op
        /\ \E k \in Between(i, j) : IsDiscovery(history[k])
        /\ \E k \in Between(i, j) : history[k].op \in InvokeOps

\* C7: when two or more callers of get_tool_docs for the same registered
\* name have all returned, the table was looked up for that name exactly
\* once and all of them observed the same value.
C7_ConcurrentFirstAccess ==
    \A n \in Registered("get_tool_docs") :
        LET cs == {c \in Callers : pc[c] # "idle" /\ callerArg[c] = n}
        IN  (Cardinality(cs) >= 2 /\ \A c \in cs : pc[c] = "done") =>
                /\ storeQueries[<<"get_tool_docs", n>>] = 1
                /\ \A c, d \in cs : callerOut[c] = callerOut[d]

-----------------------------------------------------------------------------
(* C8..C10: invocation.                                                    *)

RegisteredTools == DictKeys(WrapperTools)

\* the parameters a registered tool declares
Declared(tool_name) == DictGet(WrapperTools, tool_name, << >>)

\* the required parameters of the tool that the arguments leave out
MissingRequired(tool_name, arguments) ==
    {n \in ParamNames(Declared(tool_name)) :
        ParamNamed(Declared(tool_name), n).required /\ n \notin DOMAIN arguments}

\* the argument names the tool does not declare
UnknownArgs(tool_name, arguments) ==
    DOMAIN arguments \ ParamNames(Declared(tool_name))

\* the declared arguments whose value is not of the declared type
Mistyped(tool_name, arguments) ==
    {n \in DOMAIN arguments \cap ParamNames(Declared(tool_name)) :
        TypeOf(arguments[n]) # ParamNamed(Declared(tool_name), n).type}

\* the field of a returned result record, None when the call raised, returned
\* something that is no dict, or returned a dict without the field
ResultField(out, field) ==
    IF out.kind = "return" /\ TypeOf(out.value) = "dict"
    THEN DictGet(out.value.dict, field, PyNone)
    ELSE PyNone

\* the result's error detail is text that names the parameter
DetailNames(out, name) ==
    /\ TypeOf(ResultField(out, "error_detail")) = "str"
    /\ Contains(ResultField(out, "error_detail").str, name)

\* C8: whenever a client or wrapper has been called with a tool name that no
\* wrapper exposes, the call returned a result with status NotFound and made
\* at most one registry lookup.
C8_UnknownToolNotFound ==
    (last.op \in InvokeOps /\ last.tool \notin RegisteredTools) =>
        /\ ResultField(last.out, "status") = PyStr("NotFound")
        /\ last.lookups <= 1

\* C9: whenever a registered tool has been invoked without one of its
\* required parameters, the call returned a result with status
\* ValidationError whose error detail names a missing parameter, and no
\* request was sent to the MCP server.
C9_MissingRequiredRejected ==
    (/\ last.op \in InvokeOps
     /\ last.tool \in RegisteredTools
     /\ MissingRequired(last.tool, last.args) # {}) =>
        /\ ResultField(last.out, "status") = PyStr("ValidationError")
        /\ \E n \in MissingRequired(last.tool, last.args) : DetailNames(last.out, n)
        /\ last.sent = << >>

\* C10: whenever a registered tool has been invoked with an argument it does
\* not declare, or with a value that is not of the declared type, the call
\* returned a result with status ValidationError and no request was sent to
\* the MCP server.
C10_BadArgumentsRejected ==
    (/\ last.op \in InvokeOps
     /\ last.tool \in RegisteredTools
     /\ \/ UnknownArgs(last.tool, last.args) # {}
        \/ Mistyped(last.tool, last.args) # {}) =>
        /\ ResultField(last.out, "status") = PyStr("ValidationError")
        /\ last.sent = << >>

-----------------------------------------------------------------------------
(* C11..C14: what an invocation returns and what it sends.                 *)

ProductionWrapperOps ==
    {"OutlookEmailWrapper.list_emails", "OutlookEmailWrapper.search_emails",
     "OutlookEmailWrapper.send_email", "OutlookCalendarWrapper.list_events",
     "OutlookCalendarWrapper.create_event"}

ReferenceWrapperOps ==
    {"OutlookEmail.list_emails", "OutlookEmail.search_emails",
     "OutlookEmail.send_email", "OutlookEmail.mark_read",
     "OutlookCalendar.list_events", "OutlookCalendar.create_event"}

WrapperOps == ProductionWrapperOps \cup ReferenceWrapperOps

AllInvokeOps == InvokeOps \cup ReferenceWrapperOps

\* the parameters the wrapper method declares
ParamsOf(op) ==
    CASE op = "OutlookEmailWrapper.list_emails" -> OutlookEmailWrapper_list_emails_params
      [] op = "OutlookEmailWrapper.search_emails" -> OutlookEmailWrapper_search_emails_params
      [] op = "OutlookEmailWrapper.send_email" -> OutlookEmailWrapper_send_email_params
      [] op = "OutlookCalendarWrapper.list_events" -> OutlookCalendarWrapper_list_events_params
      [] op = "OutlookCalendarWrapper.create_event" -> OutlookCalendarWrapper_create_event_params
      [] op = "OutlookEmail.list_emails" -> OutlookEmail_list_emails_params
      [] op = "OutlookEmail.search_emails" -> OutlookEmail_search_emails_params
      [] op = "OutlookEmail.send_email" -> OutlookEmail_send_email_params
      [] op = "OutlookEmail.mark_read" -> OutlookEmail_mark_read_params
      [] op = "OutlookCalendar.list_events" -> OutlookCalendar_list_events_params
      [] op = "OutlookCalendar.create_event" -> OutlookCalendar_create_event_params

\* the arguments pass validation against the parameters: every required
\* parameter is given, every given name is declared, every value has the
\* declared type
ValidArgs(params, arguments) ==
    /\ DOMAIN arguments \subseteq ParamNames(params)
    /\ \A n \in ParamNames(params) :
          ParamNamed(params, n).required => n \in DOMAIN arguments
    /\ \A n \in DOMAIN arguments :
          TypeOf(arguments[n]) = ParamNamed(params, n).type

\* the values of a request's arguments
ArgumentValues(request) ==
    {request.arguments[n] : n \in DOMAIN request.arguments}

\* what the client answered to the request a wrapper call sent
TransportReturned(l) ==
    IF l.op \in ProductionWrapperOps
    THEN MCPClient_call(l.sent[1].tool, l.sent[1].arguments)
    ELSE OutlookMCPClient_call_tool(l.sent[1].tool, l.sent[1].arguments)

\* Python rejected the call's arguments before the method body ran
BindingFailed(l) == l.out.kind = "raise" /\ l.out.exc = "TypeError"

ResultStatuses ==
    {PyStr("Ok"), PyStr("ValidationError"), PyStr("NotFound"), PyStr("TransportError")}

\* C11: whenever a wrapper method has been called on an answering client with
\* arguments that pass validation, it sent the client one request with the
\* tool's name and the given argument values, and it returned a result with
\* status Ok whose value is exactly what the client answered.
C11_ValidInvokeReturnsOk ==
    (/\ last.op \in WrapperOps
     /\ last.client = "mock"
     /\ ValidArgs(ParamsOf(last.op), last.args)) =>
        /\ Len(last.sent) = 1
        /\ last.sent[1].tool = last.tool
        /\ \A n \in DOMAIN last.args : last.args[n] \in ArgumentValues(last.sent[1])
        /\ ResultField(last.out, "status") = PyStr("Ok")
        /\ ResultField(last.out, "value") = TransportReturned(last)

\* C12: whenever a client or wrapper has been called, whatever the tool name,
\* the arguments and the client's behaviour, the call returned (it did not
\* raise) a result whose status is Ok, ValidationError, NotFound or
\* TransportError.
C12_NoFaultEscapes ==
    last.op \in AllInvokeOps =>
        /\ last.out.kind = "return"
        /\ ResultField(last.out, "status") \in ResultStatuses

\* C13: whenever a wrapper method has handed its request to a client whose
\* call raised, the method returned a result with status TransportError and
\* a diagnostic text; the client's exception did not reach the caller.
C13_TransportFaultCaught ==
    (/\ last.op \in WrapperOps
     /\ last.client = "raises"
     /\ last.sent # << >>) =>
        /\ last.out.kind = "return"
        /\ ResultField(last.out, "status") = PyStr("TransportError")
        /\ TypeOf(ResultField(last.out, "error_detail")) = "str"

\* C14: whenever a wrapper method has been called, it sent the client exactly
\* one request, whatever the client answered or raised, and none when Python
\* rejected the arguments before the method body ran; never more than one.
C14_NoRetries ==
    last.op \in WrapperOps =>
        Len(last.sent) = IF BindingFailed(last) THEN 0 ELSE 1

\* C14 witness: a wrapper method handed its request to a client whose call
\* raised, and the request was sent once.
C14_Witness ==
    /\ last.op \in WrapperOps
    /\ last.client = "raises"
    /\ Len(last.sent) = 1
    /\ last.out.kind = "raise"
    /\ last.out.exc = "ConnectionError"

-----------------------------------------------------------------------------
(* C15..C18: registration, listing by category, stable listings, frame.    *)

\* the resolve method of each registry class
ResolveMethod(cls) ==
    CASE cls = "MCPToolRegistry" -> "get_tool_docs"
      [] cls = "MCPFilesystemDiscovery" -> "read_tool_module"
      [] cls = "OutlookMCPRegistry" -> "get_tool_info"

\* text begins with prefix
StartsWith(text, prefix) ==
    Len(text) >= Len(prefix) /\ SubSeq(text, 1, Len(prefix)) = prefix

\* the entries a registry lists under a category: the methods of that
\* category for MCPToolRegistry, the modules of that name for the flat
\* listings; empty when there are none
EntriesIn(cls, category) ==
    IF cls = "MCPToolRegistry"
    THEN DictGet(ListingOf(cls), category, << >>)
    ELSE SelectSeq(ListingOf(cls), LAMBDA entry : StartsWith(entry, category))

\* everything the registries answer and hold. What a call could change
\* is the __doc__ of the three tool classes, from which get_tool_docs builds
\* its table on every call, and the attributes of the discovery object; the
\* other tables are literals inside their methods.
RegistryContent ==
    [docstrings |-> docstrings,
     discovery |-> discovery,
     registered |-> [op \in ResolveOps |-> Registered(op)],
     listed |-> [cls \in RegistryClasses |-> ListingOf(cls)],
     get_tool_docs |->
        [n \in ToolNameInputs("get_tool_docs") |-> MCPToolRegistry_get_tool_docs(n)],
     read_tool_module |->
        [n \in ToolNameInputs("read_tool_module") |->
            MCPFilesystemDiscovery_read_tool_module(n)],
     get_tool_info |->
        [n \in ToolNameInputs("get_tool_info") |-> OutlookMCPRegistry_get_tool_info(n)]]

\* C15: whenever register has been called with a name the registry already
\* has a definition for, the call ended by raising DuplicateNameError and
\* the registry object is as it was constructed.
C15_DuplicateRegisterRejected ==
    (/\ last.op = "register"
     /\ last.arg \in Registered(ResolveMethod(last.registry))) =>
        /\ last.out.kind = "raise"
        /\ last.out.exc = "DuplicateNameError"
        /\ discovery = MCPFilesystemDiscovery_init("/mcp_tools")

\* C16: whenever a listing method has been called with a category, it
\* returned (it did not fail) exactly the entries of that category: an empty
\* sequence when no entry has the category.
C16_DiscoverByCategory ==
    last.op = "discover" =>
        /\ last.out.kind = "return"
        /\ last.out.value = EntriesIn(last.registry, last.category)

\* a register call that went through
IsRegistration(entry) == entry.op = "register" /\ entry.out.kind = "return"

C18_OnlyRegisterChangesRegistry ==
    [][last'.op # "register" => RegistryContent' = RegistryContent]_vars

\* C18 witness: a session has made a listing, a resolve call, a register
\* attempt and, last, a tool call, and the tool classes' __doc__ and the
\* discovery object are as they were at the start.
C18_Witness ==
    /\ last.op \in InvokeOps
    /\ \E k \in 1..Len(history) : IsDiscovery(history[k])
    /\ \E k \in 1..Len(history) : history[k].op \in ResolveOps
    /\ \E k \in 1..Len(history) : history[k].op = "register"
    /\ history[Len(history)] = last
    /\ docstrings.FileSystemTools = FileSystemTools_doc
    /\ discovery = MCPFilesystemDiscovery_init("/mcp_tools")

-----------------------------------------------------------------------------
(* C19: a call does not wait forever.                                      *)

\* C19: every wrapper call that waits for its client eventually returns to
\* its caller, also when the server never answers the request.
C19_InvokeEventuallyReturns ==
    \A c \in Callers : (pc[c] = "awaiting") ~> (pc[c] = "returned")

-----------------------------------------------------------------------------
(* C20: list_emails and its limit.                                         *)

ListEmailsOps ==
    {"thin_wrapper.OutlookEmail.list_emails", "OutlookEmail.list_emails",
     "OutlookEmailWrapper.list_emails"}

\* C20: whenever list_emails has been called with limit = n and has
\* returned, it returned at most n emails, whatever the folder and
\* unread_only were.
C20_ListEmailsWithinLimit ==
    (/\ last.op \in ListEmailsOps
     /\ "limit" \in DOMAIN last.args
     /\ TypeOf(last.args["limit"]) = "int"
     /\ last.out.kind = "return") =>
        Len(last.out.value.list) <= last.args["limit"].int

\* the read flag an email dict carries: is_read in the thin wrapper, isRead
\* in the reference implementation
ReadFlags == {"is_read", "isRead"}

\* the emails of a returned list that are flagged as read
ReadEmails(emails) ==
    {i \in 1..Len(emails) :
        \E k \in ReadFlags :
            /\ k \in DictKeys(emails[i].dict)
            /\ DictGet(emails[i].dict, k, PyNone) = PyBool(TRUE)}

\* C21: whenever list_emails has been called with unread_only = True and
\* has returned, no returned email has its read flag (is_read / isRead) true.
C21_UnreadOnlyReturnsUnread ==
    (/\ last.op \in ListEmailsOps
     /\ "unread_only" \in DOMAIN last.args
     /\ last.args["unread_only"] = PyBool(TRUE)
     /\ last.out.kind = "return") =>
        ReadEmails(last.out.value.list) = {}

-----------------------------------------------------------------------------
(* outlook_mcp_reference_implementation.py: example_workflow and           *)
(* example_pii_protection, one action per await; and                       *)
(* outlook_mcp_production_example.py: example_llm_generated_code.          *)

\* the longest list of customer emails a search is answered with
MaxEmails == 4

\* sample_tokens keeps the tokens of analyzed[:3]
SampleSize == 3

\* the customer emails tried, as an Outlook MCP server reports them: two
\* senders, one of them with an urgent subject, and two body texts
CustomerEmails ==
    {ReferenceEmail("msg_" \o SubSeq(f, 1, 1),
                    IF f = "alice@example.com" THEN "URGENT: refund"
                                               ELSE "Invoice question",
                    f, "2025-11-08T10:00:00Z", FALSE, b) :
        f \in {"alice@example.com", "bob@example.com"},
        b \in {"My card 4111 was charged twice", "Call me at 555 0100"}}

RECURSIVE SeqsUpTo(_, _)
\* the lists of at most n elements of S
SeqsUpTo(S, n) ==
    IF n = 0 THEN {<< >>}
    ELSE LET shorter == SeqsUpTo(S, n - 1)
         IN  shorter \cup {Append(q, x) : q \in {r \in shorter : Len(r) = n - 1}, x \in S}

\* the answers tried for the outlook_list_emails call of example_workflow:
\* the one the client gives (one unread Q4 email among three), an empty
\* inbox, and an inbox with two Q4 emails, so that the loops over q4_emails
\* run zero, one and two turns
ListEmailsAnswers(request) ==
    {OutlookMCPClient_call_tool(request.tool, request.arguments),
     PyDict(<< <<"emails", PyList(<< >>)>> >>),
     PyDict(<< <<"emails", PyList(<<
        ReferenceEmail("msg_001", "Q4 Planning Meeting", "manager@company.com",
                       "2025-11-08T10:00:00Z", FALSE,
                       "Let's schedule our Q4 planning session..."),
        ReferenceEmail("msg_004", "Q4 Budget Review", "finance@company.com",
                       "2025-11-08T09:45:00Z", FALSE,
                       "Numbers attached...") >>)>> >>)}

\* the answers tried for the outlook_search_emails call of
\* example_pii_protection: the one the client gives, {}, with which the
\* tokenizing loop has nothing to do, and answers that hold customer emails,
\* so that the loop and the summary are run on data
SearchEmailsAnswers(request) ==
    {OutlookMCPClient_call_tool(request.tool, request.arguments)} \cup
    {PyDict(<< <<"emails", PyList(l)>> >>) : l \in SeqsUpTo(CustomerEmails, MaxEmails)}

\* print(text) on sys.stdout of the given encoding, ch the first character
\* of text that ASCII does not have and pos its index: stdout encodes with
\* errors='strict', so on an ASCII stdout (PYTHONIOENCODING=ascii) the
\* call raises
Printed(encoding, ch, pos) ==
    IF encoding = "ascii"
    THEN Raise("UnicodeEncodeError",
               "'ascii' codec can't encode character '" \o ch \o "' in position "
                   \o ToString(pos) \o ": ordinal not in range(128)")
    ELSE Return(PyNone)

\* What a wrapper method returns for the outcome of its
\* `await self.client.call_tool(...)`. The wrapper methods have no
\* try/except: had the tool call ended with an exception, the method would
\* end with it.

\* result = await self.client.call_tool(...); return result.get("emails", [])
OutlookEmail_emails_result(outcome) ==
    IF outcome.kind = "raise" THEN outcome
    ELSE Return(PyGet(outcome.value, "emails", PyList(<< >>)))

\* result = await self.client.call_tool(...); return result.get("success", False)
OutlookEmail_mark_read_result(outcome) ==
    IF outcome.kind = "raise" THEN outcome
    ELSE Return(PyGet(outcome.value, "success", PyBool(FALSE)))

\* result = await self.client.call_tool(...); return result.get("events", [])
OutlookCalendar_list_events_result(outcome) ==
    IF outcome.kind = "raise" THEN outcome
    ELSE Return(PyGet(outcome.value, "events", PyList(<< >>)))

\* return await self.client.call_tool(...)
OutlookCalendar_create_event_result(outcome) == outcome

\* the entries of the call log
ConnectCall == [method |-> "connect"]
CloseCall == [method |-> "close"]
ToolCall(request, outcome) ==
    [method |-> "call_tool", tool |-> request.tool,
     arguments |-> request.arguments, out |-> outcome]

\* the function ends with the exception a statement raised: nothing catches
\* it
Raised(fr, outcome) == [fr EXCEPT !.pc = "raised", !.result = outcome]

RECURSIVE Spaces(_)
\* " " * n
Spaces(n) == IF n = 0 THEN "" ELSE " " \o Spaces(n - 1)

RECURSIVE JsonJoin(_, _)
\* ",\n".join(parts)
JsonJoin(parts, sep) ==
    IF Len(parts) = 0 THEN ""
    ELSE IF Len(parts) = 1 THEN parts[1]
    ELSE parts[1] \o sep \o JsonJoin(Tail(parts), sep)

RECURSIVE JsonDumps(_, _)
\* json.dumps(value, indent=2), value nested at depth level
JsonDumps(value, level) ==
    CASE TypeOf(value) = "str" -> "\"" \o value.str \o "\""
      [] TypeOf(value) = "int" -> ToString(value.int)
      [] TypeOf(value) = "bool" -> IF value.bool THEN "true" ELSE "false"
      [] TypeOf(value) = "NoneType" -> "null"
      [] TypeOf(value) = "list" ->
            IF value.list = << >> THEN "[]"
            ELSE "[\n"
                 \o JsonJoin([i \in 1..Len(value.list) |->
                                Spaces(2 * (level + 1))
                                    \o JsonDumps(value.list[i], level + 1)], ",\n")
                 \o "\n" \o Spaces(2 * level) \o "]"
      [] TypeOf(value) = "dict" ->
            IF value.dict = << >> THEN "{}"
            ELSE "{\n"
                 \o JsonJoin([i \in 1..Len(value.dict) |->
                                Spaces(2 * (level + 1))
                                    \o "\"" \o value.dict[i][1] \o "\": "
                                    \o JsonDumps(value.dict[i][2], level + 1)], ",\n")
                 \o "\n" \o Spaces(2 * level) \o "}"

\* "Q4" in e.get("subject", "")
IsQ4(e) == Contains(PyGet(e, "subject", PyStr("")).str, "Q4")

\* find_free_slot(busy_times)
find_free_slot(busy_times) ==
    [start |-> "2025-11-12T14:00:00Z", end |-> "2025-11-12T15:00:00Z"]

\* the summary example_workflow returns
example_workflow_summary(q4_emails, meeting) ==
    PyDict(<< <<"q4_emails_found", PyInt(Len(q4_emails))>>,
              <<"emails_processed",
                PyList([i \in 1..Len(q4_emails) |-> PyGet(q4_emails[i], "subject", PyNone)])>>,
              <<"meeting_created",
                PyDict(<< <<"id", PyGet(meeting, "id", PyNone)>>,
                          <<"subject", PyGet(meeting, "subject", PyNone)>>,
                          <<"time", PyGet(meeting, "start", PyNone)>> >>)>>,
              <<"emails_marked_read", PyInt(Len(q4_emails))>> >>)

\* client = OutlookMCPClient(...); await client.connect(), in a process
\* whose sys.stdout has the given encoding
ExampleWorkflowConnect(encoding) ==
    /\ frame.fn = "none"
    /\ frame' = [fn |-> "example_workflow", pc |-> "list_emails",
                 encoding |-> encoding,
                 q4_emails |-> << >>, meeting |-> PyNone, marked |-> 0,
                 result |-> [kind |-> "none"]]
    /\ calls' = << ConnectCall >>
    /\ last' = [op |-> "example_workflow"]
    /\ UNCHANGED <<docstrings, history, storeQueries, resolveCalls, returned,
                   pc, callerArg, callerTools, callerOut,
                   listings, discovery, inflight, stdout>>

\* for e in q4_emails: print(f"  - {e['subject']} (from {e['from']})")
example_workflow_prints(q4_emails) ==
    [i \in 1..Len(q4_emails) |->
        "  - " \o PyGet(q4_emails[i], "subject", PyNone).str
            \o " (from " \o PyGet(q4_emails[i], "from", PyNone).str \o ")"]

\* all_emails = await email.list_emails(folder="inbox", unread_only=True)
\* print(f"\u2713 Fetched {len(all_emails)} unread emails")
\* q4_emails = [e for e in all_emails if "Q4" in e.get("subject", "")],
\* and each of them is printed
ExampleWorkflowListEmails ==
    /\ frame.fn = "example_workflow" /\ frame.pc = "list_emails"
    /\ LET request == OutlookEmail_list_emails([folder |-> PyStr("inbox"),
                                                unread_only |-> PyBool(TRUE)]).sent[1]
       IN  \E answer \in ListEmailsAnswers(request) :
             LET all_emails == OutlookEmail_emails_result(Return(answer))
                 fetched == Printed(frame.encoding, "\\u2713", 0)
             IN  /\ calls' = Append(calls, ToolCall(request, Return(answer)))
                 /\ IF fetched.kind = "raise"
                    THEN /\ frame' = Raised(frame, fetched)
                         /\ stdout' = stdout
                    ELSE LET q4_emails == SelectSeq(all_emails.value.list, IsQ4)
                         IN  /\ frame' = [frame EXCEPT !.pc = "list_events",
                                                       !.q4_emails = q4_emails]
                             /\ stdout' = stdout \o example_workflow_prints(q4_emails)
    /\ UNCHANGED <<docstrings, history, last, storeQueries, resolveCalls, returned,
                   pc, callerArg, callerTools, callerOut,
                   listings, discovery, inflight>>

\* events = await calendar.list_events(start_date="2025-11-11", end_date="2025-11-15")
ExampleWorkflowListEvents ==
    /\ frame.fn = "example_workflow" /\ frame.pc = "list_events"
    /\ LET request == OutlookCalendar_list_events([start_date |-> PyStr("2025-11-11"),
                                                   end_date |-> PyStr("2025-11-15")]).sent[1]
           answer == Return(OutlookMCPClient_call_tool(request.tool, request.arguments))
       IN  /\ calls' = Append(calls, ToolCall(request, answer))
           /\ frame' = [frame EXCEPT !.pc = "create_event"]
    /\ UNCHANGED <<docstrings, history, last, storeQueries, resolveCalls, returned,
                   pc, callerArg, callerTools, callerOut,
                   listings, discovery, inflight, stdout>>

\* meeting = await calendar.create_event(subject="Q4 Planning Discussion", ...)
ExampleWorkflowCreateEvent ==
    /\ frame.fn = "example_workflow" /\ frame.pc = "create_event"
    /\ LET free_slot == find_free_slot(<< >>)
           request == OutlookCalendar_create_event(
                          [subject |-> PyStr("Q4 Planning Discussion"),
                           start |-> PyStr(free_slot.start),
                           end |-> PyStr(free_slot.end),
                           attendees |-> PyList(<< PyStr("manager@company.com") >>),
                           location |-> PyStr("Conference Room B")]).sent[1]
           answer == Return(OutlookMCPClient_call_tool(request.tool, request.arguments))
           meeting == OutlookCalendar_create_event_result(answer)
       IN  /\ calls' = Append(calls, ToolCall(request, answer))
           /\ frame' = [frame EXCEPT !.pc = "mark_read", !.meeting = meeting.value]
    /\ UNCHANGED <<docstrings, history, last, storeQueries, resolveCalls, returned,
                   pc, callerArg, callerTools, callerOut,
                   listings, discovery, inflight, stdout>>

\* for msg in q4_emails: await email.mark_read(msg["id"]) -- one turn of the
\* loop; what mark_read returns is dropped
ExampleWorkflowMarkRead ==
    /\ frame.fn = "example_workflow" /\ frame.pc = "mark_read"
    /\ frame.marked < Len(frame.q4_emails)
    /\ LET msg == frame.q4_emails[frame.marked + 1]
           request == OutlookEmail_mark_read(
                          [email_id |-> PyGet(msg, "id", PyNone)]).sent[1]
           answer == Return(OutlookMCPClient_call_tool(request.tool, request.arguments))
       IN  /\ calls' = Append(calls, ToolCall(request, answer))
           /\ frame' = [frame EXCEPT !.marked = @ + 1]
    /\ UNCHANGED <<docstrings, history, last, storeQueries, resolveCalls, returned,
                   pc, callerArg, callerTools, callerOut,
                   listings, discovery, inflight, stdout>>

\* ExampleWorkflowClose with the close awaited too early: once the meeting
\* is created the client is closed, and the loop marks the emails afterwards
ExampleWorkflowClose_early ==
    /\ frame.fn = "example_workflow" /\ frame.pc = "mark_read"
    /\ IF \A i \in 1..Len(calls) : calls[i].method # "close"
       THEN /\ calls' = Append(calls, CloseCall)
            /\ frame' = frame
            /\ stdout' = stdout
       ELSE /\ frame.marked = Len(frame.q4_emails)
            /\ calls' = calls
            /\ frame' = [frame EXCEPT
                            !.pc = "returned",
                            !.result = Return(example_workflow_summary(frame.q4_emails,
                                                                       frame.meeting))]
            /\ stdout' = Append(stdout,
                                JsonDumps(example_workflow_summary(frame.q4_emails,
                                                                   frame.meeting), 0))
    /\ UNCHANGED <<docstrings, history, last, storeQueries, resolveCalls, returned,
                   pc, callerArg, callerTools, callerOut,
                   listings, discovery, inflight>>

\* await client.close(), then the summary is built, printed and returned
ExampleWorkflowClose ==
    /\ frame.fn = "example_workflow" /\ frame.pc = "mark_read"
    /\ frame.marked = Len(frame.q4_emails)
    /\ calls' = Append(calls, CloseCall)
    /\ frame' = [frame EXCEPT
                    !.pc = "returned",
                    !.result = Return(example_workflow_summary(frame.q4_emails,
                                                               frame.meeting))]
    /\ stdout' = Append(stdout, JsonDumps(example_workflow_summary(frame.q4_emails,
                                                                  frame.meeting), 0))
    /\ UNCHANGED <<docstrings, history, last, storeQueries, resolveCalls, returned,
                   pc, callerArg, callerTools, callerOut,
                   listings, discovery, inflight>>

\* c.lower() for one character, ASCII letters
LowerChar(c) ==
    LET UpperCase == "ABCDEFGHIJKLMNOPQRSTUVWXYZ"
        LowerCase == "abcdefghijklmnopqrstuvwxyz"
    IN  IF \E i \in 1..Len(UpperCase) : SubSeq(UpperCase, i, i) = c
        THEN LET i == CHOOSE j \in 1..Len(UpperCase) : SubSeq(UpperCase, j, j) = c
             IN  SubSeq(LowerCase, i, i)
        ELSE c

RECURSIVE Lower(_)
\* s.lower()
Lower(s) ==
    IF s = "" THEN "" ELSE LowerChar(SubSeq(s, 1, 1)) \o Lower(SubSeq(s, 2, Len(s)))

\* hashlib.sha256(text.encode()).hexdigest()[:8], for the senders tried
Sha256Hex8(text) ==
    CASE text = "alice@example.com" -> "ff8d9819"
      [] text = "bob@example.com" -> "5ff860bf"
      [] text = "carol@example.com" -> "e0d47ca1"

\* the analysis dict with the sender's address itself put behind the prefix
Analysis_raw(msg) ==
    [sender_token |-> "CUSTOMER_" \o PyGet(msg, "from", PyNone).str,
     subject_category |-> "support_request",
     urgency |-> IF Contains(Lower(PyGet(msg, "subject", PyStr("")).str), "urgent")
                 THEN "high" ELSE "normal",
     timestamp |-> PyGet(msg, "date", PyNone).str]

\* the analysis dict example_pii_protection builds for one email
Analysis(msg) ==
    [sender_token |-> "CUSTOMER_" \o Sha256Hex8(PyGet(msg, "from", PyNone).str),
     subject_category |-> "support_request",
     urgency |-> IF Contains(Lower(PyGet(msg, "subject", PyStr("")).str), "urgent")
                 THEN "high" ELSE "normal",
     timestamp |-> PyGet(msg, "date", PyNone).str]

\* analyzed, after the loop over customer_emails
Analyzed(customer_emails) ==
    [i \in 1..Len(customer_emails) |-> Analysis(customer_emails[i])]

\* analyzed[:n]
Head_n(seq, n) == SubSeq(seq, 1, IF Len(seq) < n THEN Len(seq) ELSE n)

\* the summary example_pii_protection builds
example_pii_protection_summary(customer_emails) ==
    LET analyzed == Analyzed(customer_emails)
        sample == Head_n(analyzed, SampleSize)
    IN  PyDict(<< <<"total_emails", PyInt(Len(customer_emails))>>,
                  <<"by_urgency",
                    PyDict(<< <<"high", PyInt(Cardinality({i \in 1..Len(analyzed) :
                                                analyzed[i].urgency = "high"}))>>,
                              <<"normal", PyInt(Cardinality({i \in 1..Len(analyzed) :
                                                analyzed[i].urgency = "normal"}))>> >>)>>,
                  <<"sample_tokens",
                    PyList([i \in 1..Len(sample) |-> PyStr(sample[i].sender_token)])>> >>)

\* what example_pii_protection prints between fetching the emails and
\* closing the client, as far as it shows data of the emails: one line per
\* email of the loop, and the summary
example_pii_protection_prints(customer_emails) ==
    LET analyzed == Analyzed(customer_emails)
    IN  [i \in 1..Len(customer_emails) |->
                "  Original: " \o PyGet(customer_emails[i], "from", PyNone).str
                    \o " → Tokenized: " \o analyzed[i].sender_token]
        \o << JsonDumps(example_pii_protection_summary(customer_emails), 0) >>

\* client = OutlookMCPClient(...); await client.connect(), in a process
\* whose sys.stdout has the given encoding
PiiProtectionConnect(encoding) ==
    /\ frame.fn = "none"
    /\ frame' = [fn |-> "example_pii_protection", pc |-> "search_emails",
                 encoding |-> encoding,
                 customer_emails |-> << >>, summary |-> PyNone,
                 result |-> [kind |-> "none"]]
    /\ calls' = << ConnectCall >>
    /\ last' = [op |-> "example_pii_protection"]
    /\ UNCHANGED <<docstrings, history, storeQueries, resolveCalls, returned,
                   pc, callerArg, callerTools, callerOut,
                   listings, discovery, inflight, stdout>>

\* customer_emails = await email.search_emails("customer support")
\* print(f"\u2713 Fetched {len(customer_emails)} customer emails"), then the
\* loop that tokenizes, the summary and the prints, up to the next await;
\* when the print raises, customer_emails is already bound
PiiProtectionSearchEmails ==
    /\ frame.fn = "example_pii_protection" /\ frame.pc = "search_emails"
    /\ LET request == OutlookEmail_search_emails(
                          [query |-> PyStr("customer support")]).sent[1]
       IN  \E answer \in SearchEmailsAnswers(request) :
             LET customer_emails == OutlookEmail_emails_result(Return(answer))
                 fetched == Printed(frame.encoding, "\\u2713", 0)
             IN  /\ calls' = Append(calls, ToolCall(request, Return(answer)))
                 /\ IF fetched.kind = "raise"
                    THEN /\ frame' = Raised([frame EXCEPT !.customer_emails =
                                                 customer_emails.value.list],
                                             fetched)
                         /\ stdout' = stdout
                    ELSE /\ frame' = [frame EXCEPT
                                !.pc = "close",
                                !.customer_emails = customer_emails.value.list,
                                !.summary = example_pii_protection_summary(
                                                customer_emails.value.list)]
                         /\ stdout' = stdout \o example_pii_protection_prints(
                                                    customer_emails.value.list)
    /\ UNCHANGED <<docstrings, history, last, storeQueries, resolveCalls, returned,
                   pc, callerArg, callerTools, callerOut,
                   listings, discovery, inflight>>

\* await client.close(); the function returns None
PiiProtectionClose ==
    /\ frame.fn = "example_pii_protection" /\ frame.pc = "close"
    /\ calls' = Append(calls, CloseCall)
    /\ frame' = [frame EXCEPT !.pc = "returned", !.result = Return(PyNone)]
    /\ UNCHANGED <<docstrings, history, last, storeQueries, resolveCalls, returned,
                   pc, callerArg, callerTools, callerOut,
                   listings, discovery, inflight, stdout>>

\* example_llm_generated_code() of the production example, on the MCPClient
\* it constructs: the wrapper calls it makes, its locals and its summary
example_llm_generated_code ==
    LET all_emails == OutlookEmailWrapper_list_emails(
                          [folder |-> PyStr("inbox"), unread_only |-> PyBool(TRUE)])
        q4_emails == SelectSeq(all_emails.out.value.list, IsQ4)
        events == OutlookCalendarWrapper_list_events(
                          [start_date |-> PyStr("2025-11-11"),
                           end_date |-> PyStr("2025-11-15")])
        free_slot == [start |-> "2025-11-12T14:00:00Z", end |-> "2025-11-12T15:00:00Z"]
        meeting == OutlookCalendarWrapper_create_event(
                          [subject |-> PyStr("Q4 Planning Discussion"),
                           start |-> PyStr(free_slot.start),
                           end |-> PyStr(free_slot.end),
                           attendees |-> PyList(<< PyStr("manager@company.com") >>)])
    IN  [q4_emails |-> q4_emails,
         meeting |-> meeting.out.value,
         sent |-> all_emails.sent \o events.sent \o meeting.sent,
         summary |-> PyDict(<< <<"q4_emails_found", PyInt(Len(q4_emails))>>,
                               <<"meeting_created", PyGet(meeting.out.value, "id", PyNone)>>,
                               <<"meeting_time",
                                 PyGet(meeting.out.value, "start", PyNone)>> >>)]

\* a run of example_llm_generated_code() in a process whose sys.stdout has
\* the given encoding: it has no await, so it runs from its first statement
\* to its return, or to print(f"   \u2192 Fetched ...") after its first
\* wrapper call when stdout cannot encode the arrow; the summary is printed
\* before it is returned
LlmGeneratedCode(encoding) ==
    /\ frame.fn = "none"
    /\ LET run == example_llm_generated_code
           fetched == Printed(encoding, "\\u2192", 3)
           made == IF fetched.kind = "raise" THEN SubSeq(run.sent, 1, 1) ELSE run.sent
       IN  /\ frame' = IF fetched.kind = "raise"
                       THEN [fn |-> "example_llm_generated_code", pc |-> "raised",
                             q4_emails |-> << >>, meeting |-> PyNone,
                             result |-> fetched]
                       ELSE [fn |-> "example_llm_generated_code", pc |-> "returned",
                             q4_emails |-> run.q4_emails, meeting |-> run.meeting,
                             result |-> Return(run.summary)]
           /\ calls' = [i \in 1..Len(made) |->
                            [method |-> "call", tool |-> made[i].tool,
                             arguments |-> made[i].arguments,
                             out |-> Return(MCPClient_call(made[i].tool,
                                                           made[i].arguments))]]
           /\ stdout' = IF fetched.kind = "raise" THEN << >>
                        ELSE << JsonDumps(run.summary, 0) >>
    /\ last' = [op |-> "example_llm_generated_code"]
    /\ UNCHANGED <<docstrings, history, storeQueries, resolveCalls, returned,
                   pc, callerArg, callerTools, callerOut,
                   listings, discovery, inflight>>

NextWorkflow ==
    \* the encodings of sys.stdout tried: the default, and ASCII
    \/ \E encoding \in {"utf-8", "ascii"} :
          \/ ExampleWorkflowConnect(encoding)
          \/ PiiProtectionConnect(encoding)
          \/ LlmGeneratedCode(encoding)
    \/ ExampleWorkflowListEmails
    \/ ExampleWorkflowListEvents
    \/ ExampleWorkflowCreateEvent
    \/ ExampleWorkflowMarkRead
    \/ ExampleWorkflowClose
    \/ PiiProtectionSearchEmails
    \/ PiiProtectionClose

\* one run of an example function, from its first statement to its return
\* or to the exception that ends it
SpecWorkflow == Init /\ [][NextWorkflow]_vars

-----------------------------------------------------------------------------
(* C22..C26: the example workflows.                                         *)

\* what of an email identifies the customer or quotes the message
PiiTexts(e) ==
    {PyGet(e, k, PyNone).str : k \in {"from", "subject", "bodyPreview"}}

\* two fetched lists that differ at most in the body text of their emails
SameButBody(l1, l2) ==
    /\ Len(l1) = Len(l2)
    /\ \A i \in 1..Len(l1) :
         \A k \in DictKeys(l1[i].dict) \cup DictKeys(l2[i].dict) :
            k # "bodyPreview" => PyGet(l1[i], k, PyNone) = PyGet(l2[i], k, PyNone)

\* the body texts of the customer emails tried
BodyTexts == {PyGet(e, "bodyPreview", PyNone).str : e \in CustomerEmails}

\* the fetched list l with the body text of its i-th email replaced by bodies[i]
Rebodied(l, bodies) ==
    [i \in 1..Len(l) |->
        PyDict([k \in 1..Len(l[i].dict) |->
                   IF l[i].dict[k][1] = "bodyPreview"
                   THEN <<"bodyPreview", PyStr(bodies[i])>>
                   ELSE l[i].dict[k]])]

HexDigits == "0123456789abcdef"

\* a sender token: CUSTOMER_ followed by eight hex digits
IsCustomerToken(text) ==
    /\ Len(text) = 17
    /\ SubSeq(text, 1, 9) = "CUSTOMER_"
    /\ \A i \in 10..17 : Contains(HexDigits, SubSeq(text, i, i))

\* the run of example_pii_protection has fetched its emails and printed
PiiFetched == frame.fn = "example_pii_protection" /\ frame.pc \in {"close", "returned"}

CallsOf(tool_name) ==
    SelectSeq(calls, LAMBDA c : c.method \in {"call_tool", "call"} /\ c.tool = tool_name)

\* the positions of the log at which a tool was called
PositionsOf(tool_name) ==
    {i \in 1..Len(calls) :
        calls[i].method \in {"call_tool", "call"} /\ calls[i].tool = tool_name}

\* what mark_read returned for a logged call: result.get("success", False)
ReportedSuccess(c) ==
    OutlookEmail_mark_read_result(c.out) = Return(PyBool(TRUE))

\* C23: when example_workflow has returned, mark_read was issued exactly
\* once for each Q4 email found, in order and after the meeting was created,
\* each of these calls reported success, and the summary's
\* emails_marked_read is the number of emails successfully marked read.
C23_EmailsMarkedRead ==
    (frame.fn = "example_workflow" /\ frame.pc = "returned") =>
        LET marks == CallsOf("outlook_mark_read")
        IN  /\ Len(marks) = Len(frame.q4_emails)
            /\ \A i \in 1..Len(marks) :
                 marks[i].arguments.emailId = PyGet(frame.q4_emails[i], "id", PyNone)
            /\ \A i \in PositionsOf("outlook_mark_read") :
                 \E j \in PositionsOf("outlook_create_event") : j < i
            /\ \A i \in 1..Len(marks) : ReportedSuccess(marks[i])
            /\ PyGet(frame.result.value, "emails_marked_read", PyNone)
                 = PyInt(Cardinality({i \in 1..Len(marks) : ReportedSuccess(marks[i])}))

\* the meeting id and the meeting time a returned summary reports
MeetingId(fn, summary) ==
    IF fn = "example_workflow"
    THEN PyGet(PyGet(summary, "meeting_created", PyDict(<< >>)), "id", PyNone)
    ELSE PyGet(summary, "meeting_created", PyNone)

MeetingTime(fn, summary) ==
    IF fn = "example_workflow"
    THEN PyGet(PyGet(summary, "meeting_created", PyDict(<< >>)), "time", PyNone)
    ELSE PyGet(summary, "meeting_time", PyNone)

\* C24: when example_llm_generated_code or example_workflow has returned,
\* exactly one create-event call was made, the summary's meeting id is the
\* non-null id of the event that call returned, and the meeting time is that
\* event's start.
C24_SummaryReportsMeeting ==
    (frame.fn \in {"example_workflow", "example_llm_generated_code"}
        /\ frame.pc = "returned") =>
        LET created == CallsOf("outlook_create_event")
        IN  /\ Len(created) = 1
            /\ MeetingId(frame.fn, frame.result.value) # PyNone
            /\ MeetingId(frame.fn, frame.result.value)
                 = PyGet(created[1].out.value, "id", PyNone)
            /\ MeetingTime(frame.fn, frame.result.value)
                 = PyGet(created[1].out.value, "start", PyNone)

\* the runs that open a session with an OutlookMCPClient
SessionRuns == {"example_workflow", "example_pii_protection"}

\* C25: in every run of example_workflow and example_pii_protection, each
\* call_tool on the client comes after the client's connect and before its
\* close: none is made on a client never connected or already closed.
C25_SessionProtocol ==
    frame.fn \in SessionRuns =>
        \A i \in 1..Len(calls) :
            calls[i].method = "call_tool" =>
                /\ \E j \in 1..(i - 1) : calls[j].method = "connect"
                /\ \A j \in 1..(i - 1) : calls[j].method # "close"

\* example_workflow has returned after marking an email read and closing
C25_Witness ==
    /\ frame.fn = "example_workflow" /\ frame.pc = "returned"
    /\ PositionsOf("outlook_mark_read") # {}
    /\ calls[1].method = "connect"
    /\ calls[Len(calls)].method = "close"

\* C26: a run of example_workflow or example_pii_protection that called
\* connect and is over, by returning or by an exception raised after the
\* connect, has called close.
C26_NoLeakedConnection ==
    (/\ frame.fn \in SessionRuns
     /\ frame.pc \in {"returned", "raised"}
     /\ \E i \in 1..Len(calls) : calls[i].method = "connect") =>
        \E i \in 1..Len(calls) : calls[i].method = "close"

-----------------------------------------------------------------------------
(* mcp_wrapper_example.py: example_thin_wrapper_approach and               *)
(* pattern_3_iterative_processing, one action per turn of their loops.     *)

\* the longest file list search_files("*.py") is answered with
MaxFiles == 3

\* the longest file list search_files("*.json") is answered with
MaxJsonFiles == 6

\* error_details keeps errors[:5]
ErrorDetailsMax == 5

\* FileSystemTools.search_files(pattern): the canned answer
FileSystemTools_search_files(pattern) ==
    << "match1_" \o pattern \o ".py", "match2_" \o pattern \o ".py" >>

\* FileSystemTools.read_file(path): the canned answer
FileSystemTools_read_file(path) == "Contents of " \o path

\* DatabaseTools.query(sql): the canned answer
DatabaseTools_query(sql) ==
    << PyDict(<< <<"id", PyInt(1)>>, <<"name", PyStr("Alice")>> >>),
       PyDict(<< <<"id", PyInt(2)>>, <<"name", PyStr("Bob")>> >>) >>

\* APITools.post(url, data): the canned answer
APITools_post(url, data) ==
    PyDict(<< <<"status", PyStr("created")>>, <<"id", PyInt(456)>> >>)

\* the answers tried for search_files("*.py"): the canned one and the lists
\* a filesystem MCP server can give
PythonFileLists ==
    {FileSystemTools_search_files("*.py")} \cup SeqsUpTo({"a.py", "b.py", "c.py"}, MaxFiles)

\* the answers tried for db.query(...): the canned rows and rows of a
\* database that tracks some of the files; one row has no name
TrackedRows ==
    {DatabaseTools_query("SELECT filename FROM tracked_files"),
     << >>,
     << PyDict(<< <<"id", PyInt(1)>>, <<"name", PyStr("a.py")>> >>) >>,
     << PyDict(<< <<"id", PyInt(1)>>, <<"name", PyStr("a.py")>> >>),
        PyDict(<< <<"id", PyInt(2)>>, <<"name", PyStr("c.py")>> >>),
        PyDict(<< <<"id", PyInt(3)>>, <<"name", PyStr("a.py")>> >>) >>,
     << PyDict(<< <<"id", PyInt(4)>> >>),
        PyDict(<< <<"id", PyInt(5)>>, <<"name", PyStr("b.py")>> >>) >>}

\* db_filenames = {row.get("name", "") for row in db_files}
NameSet(db_files) ==
    {PyGet(db_files[i], "name", PyStr("")).str : i \in 1..Len(db_files)}

\* MissingFiles without the test: every discovered file counts as missing
MissingFiles_all(python_files, db_filenames) == python_files

\* missing = [f for f in python_files if f not in db_filenames]
MissingFiles(python_files, db_filenames) ==
    SelectSeq(python_files, LAMBDA f : f \notin db_filenames)

\* the result example_thin_wrapper_approach returns
example_thin_wrapper_approach_result(python_files, db_filenames, synced) ==
    PyDict(<< <<"total_files", PyInt(Len(python_files))>>,
              <<"already_tracked", PyInt(Cardinality(db_filenames))>>,
              <<"newly_synced", PyInt(Len(synced))>>,
              <<"sync_ids", PyList(synced)>> >>)

\* python_files = fs.search_files("*.py"); db_files = db.query(...);
\* db_filenames and missing are computed
ThinWrapperStart(python_files, db_files) ==
    /\ frame.fn = "none"
    /\ frame' = [fn |-> "example_thin_wrapper_approach", pc |-> "sync",
                 python_files |-> python_files,
                 db_filenames |-> NameSet(db_files),
                 missing |-> MissingFiles(python_files, NameSet(db_files)),
                 synced |-> << >>,
                 result |-> [kind |-> "none"]]
    /\ calls' = << [method |-> "search_files", pattern |-> "*.py",
                    out |-> Return(python_files)],
                   [method |-> "query", sql |-> "SELECT filename FROM tracked_files",
                    out |-> Return(db_files)] >>
    /\ last' = [op |-> "example_thin_wrapper_approach"]
    /\ UNCHANGED <<docstrings, history, storeQueries, resolveCalls, returned,
                   pc, callerArg, callerTools, callerOut,
                   listings, discovery, inflight, stdout>>

\* one turn of `for file in missing`: the file is read, posted, and the id
\* of the answer is appended to synced
ThinWrapperSync ==
    /\ frame.fn = "example_thin_wrapper_approach" /\ frame.pc = "sync"
    /\ Len(frame.synced) < Len(frame.missing)
    /\ LET file == frame.missing[Len(frame.synced) + 1]
           content == FileSystemTools_read_file(file)
           data == PyDict(<< <<"file", PyStr(file)>>, <<"content", PyStr(content)>> >>)
           result == APITools_post("/sync", data)
       IN  /\ calls' = calls \o
                    << [method |-> "read_file", path |-> file, out |-> Return(content)],
                       [method |-> "post", url |-> "/sync", data |-> data,
                        out |-> Return(result)] >>
           /\ frame' = [frame EXCEPT !.synced = Append(@, PyGet(result, "id", PyNone))]
    /\ UNCHANGED <<docstrings, history, last, storeQueries, resolveCalls, returned,
                   pc, callerArg, callerTools, callerOut,
                   listings, discovery, inflight, stdout>>

\* the loop is over: the result dict is returned
ThinWrapperReturn ==
    /\ frame.fn = "example_thin_wrapper_approach" /\ frame.pc = "sync"
    /\ Len(frame.synced) = Len(frame.missing)
    /\ frame' = [frame EXCEPT
                    !.pc = "returned",
                    !.result = Return(example_thin_wrapper_approach_result(
                                    frame.python_files, frame.db_filenames, frame.synced))]
    /\ UNCHANGED <<docstrings, history, last, storeQueries, resolveCalls, returned,
                   pc, callerArg, callerTools, callerOut,
                   listings, discovery, inflight, calls, stdout>>

\* the answers tried for search_files("*.json"): the canned one and the
\* first n files of a directory of JSON files
JsonFileLists ==
    {FileSystemTools_search_files("*.json")} \cup
    {[i \in 1..n |-> "f" \o ToString(i) \o ".json"] : n \in 0..MaxJsonFiles}

\* how fs.read_file(file) can end: with the content, or with an exception
ReadOutcomes(file) ==
    {Return(FileSystemTools_read_file(file)), Raise("FileNotFoundError", file)}

\* how api.post("/process", data) can end: with the canned answer (status
\* created), with a success answer, or with an exception
PostOutcomes(data) ==
    {Return(APITools_post("/process", data)),
     Return(PyDict(<< <<"status", PyStr("success")>> >>)),
     Raise("TimeoutError", "API timeout")}

\* the body of the loop for one file whose read ended with `read` and whose
\* post, if it was reached, with `post`: the locals afterwards. A turn that
\* raises ends the whole loop
pattern_3_turn_stop(fr, file, read, post) ==
    IF read.kind = "raise" \/ post.kind = "raise"
    THEN [fr EXCEPT
            !.done = Len(fr.files),
            !.errors = Append(@, PyDict(<< <<"file", PyStr(file)>>,
                                           <<"error", PyStr(IF read.kind = "raise"
                                                            THEN read.what
                                                            ELSE post.what)>> >>))]
    ELSE [fr EXCEPT !.done = @ + 1,
                    !.processed = IF PyGet(post.value, "status", PyNone) = PyStr("success")
                                  THEN @ + 1 ELSE @]

\* the body of the loop for one file whose read ended with `read` and whose
\* post, if it was reached, with `post`: the locals afterwards
pattern_3_turn(fr, file, read, post) ==
    IF read.kind = "raise"
    THEN [fr EXCEPT
            !.done = @ + 1,
            !.errors = Append(@, PyDict(<< <<"file", PyStr(file)>>,
                                           <<"error", PyStr(read.what)>> >>))]
    ELSE IF post.kind = "raise"
    THEN [fr EXCEPT
            !.done = @ + 1,
            !.errors = Append(@, PyDict(<< <<"file", PyStr(file)>>,
                                           <<"error", PyStr(post.what)>> >>))]
    ELSE [fr EXCEPT !.done = @ + 1,
                    !.processed = IF PyGet(post.value, "status", PyNone) = PyStr("success")
                                  THEN @ + 1 ELSE @]

\* the summary pattern_3_iterative_processing returns
pattern_3_summary(files, processed, errors) ==
    PyDict(<< <<"total_files", PyInt(Len(files))>>,
              <<"processed", PyInt(processed)>>,
              <<"errors", PyInt(Len(errors))>>,
              <<"error_details", PyList(Head_n(errors, ErrorDetailsMax))>> >>)

\* files = fs.search_files("*.json"); processed = 0; errors = []
Pattern3Start(files) ==
    /\ frame.fn = "none"
    /\ frame' = [fn |-> "pattern_3_iterative_processing", pc |-> "loop",
                 files |-> files, done |-> 0, processed |-> 0, errors |-> << >>,
                 result |-> [kind |-> "none"]]
    /\ calls' = << [method |-> "search_files", pattern |-> "*.json",
                    out |-> Return(files)] >>
    /\ last' = [op |-> "pattern_3_iterative_processing"]
    /\ UNCHANGED <<docstrings, history, storeQueries, resolveCalls, returned,
                   pc, callerArg, callerTools, callerOut,
                   listings, discovery, inflight, stdout>>

\* one turn of `for file in files`, inside try/except Exception
Pattern3File ==
    /\ frame.fn = "pattern_3_iterative_processing" /\ frame.pc = "loop"
    /\ frame.done < Len(frame.files)
    /\ LET file == frame.files[frame.done + 1]
           data == PyDict(<< <<"data", PyStr(FileSystemTools_read_file(file))>> >>)
       IN  \E read \in ReadOutcomes(file) :
             \/ /\ read.kind = "raise"
                /\ calls' = Append(calls, [method |-> "read_file", path |-> file,
                                           out |-> read])
                /\ frame' = pattern_3_turn(frame, file, read, read)
             \/ /\ read.kind = "return"
                /\ \E post \in PostOutcomes(data) :
                     /\ calls' = calls \o
                            << [method |-> "read_file", path |-> file, out |-> read],
                               [method |-> "post", url |-> "/process", data |-> data,
                                out |-> post] >>
                     /\ frame' = pattern_3_turn(frame, file, read, post)
    /\ UNCHANGED <<docstrings, history, last, storeQueries, resolveCalls, returned,
                   pc, callerArg, callerTools, callerOut,
                   listings, discovery, inflight, stdout>>

\* the loop is over: the summary is returned
Pattern3Return ==
    /\ frame.fn = "pattern_3_iterative_processing" /\ frame.pc = "loop"
    /\ frame.done = Len(frame.files)
    /\ frame' = [frame EXCEPT
                    !.pc = "returned",
                    !.result = Return(pattern_3_summary(frame.files, frame.processed,
                                                        frame.errors))]
    /\ UNCHANGED <<docstrings, history, last, storeQueries, resolveCalls, returned,
                   pc, callerArg, callerTools, callerOut,
                   listings, discovery, inflight, calls, stdout>>

NextPatterns ==
    \/ \E python_files \in PythonFileLists, db_files \in TrackedRows :
            ThinWrapperStart(python_files, db_files)
    \/ ThinWrapperSync
    \/ ThinWrapperReturn
    \/ \E files \in JsonFileLists : Pattern3Start(files)
    \/ Pattern3File
    \/ Pattern3Return

\* one run of example_thin_wrapper_approach or pattern_3_iterative_processing
SpecPatterns == Init /\ [][NextPatterns]_vars

-----------------------------------------------------------------------------
(* C27, C28: the loops of mcp_wrapper_example.py.                           *)

\* the read_file and post calls of the log, in order
LoopCalls == SelectSeq(calls, LAMBDA c : c.method \in {"read_file", "post"})

\* the positions of the discovered list whose file is not in the database
\* name set
MissingPositions ==
    {i \in 1..Len(frame.python_files) : frame.python_files[i] \notin frame.db_filenames}

\* the k-th smallest element of a set of numbers
Kth(S, k) == CHOOSE x \in S : Cardinality({y \in S : y < x}) = k - 1

\* C27: when example_thin_wrapper_approach has returned, the files read and
\* posted are the discovered files whose name is not in the database name
\* set, each read and then posted exactly once, in discovery order; files in
\* the set are neither read nor posted; newly_synced = len(sync_ids) = the
\* number of missing files.
C27_SyncsMissingFilesOnce ==
    (frame.fn = "example_thin_wrapper_approach" /\ frame.pc = "returned") =>
        LET n == Cardinality(MissingPositions)
            file(k) == frame.python_files[Kth(MissingPositions, k)]
            result == frame.result.value
        IN  /\ Len(LoopCalls) = 2 * n
            /\ \A k \in 1..n :
                 /\ LoopCalls[2 * k - 1].method = "read_file"
                 /\ LoopCalls[2 * k - 1].path = file(k)
                 /\ LoopCalls[2 * k].method = "post"
                 /\ PyGet(LoopCalls[2 * k].data, "file", PyNone) = PyStr(file(k))
            /\ PyGet(result, "newly_synced", PyNone) = PyInt(n)
            /\ Len(PyGet(result, "sync_ids", PyNone).list) = n

\* a run has returned that found a tracked file between two missing ones
C27_Witness ==
    /\ frame.fn = "example_thin_wrapper_approach" /\ frame.pc = "returned"
    /\ Cardinality(MissingPositions) = 2
    /\ \E i \in 1..Len(frame.python_files) :
         /\ i \notin MissingPositions
         /\ \E j \in MissingPositions : j < i
         /\ \E j \in MissingPositions : j > i
    /\ Len(LoopCalls) = 4

\* the read_file calls of the log, in order
Attempts == SelectSeq(calls, LAMBDA c : c.method = "read_file")

\* the position in the log of the read_file call for the k-th attempt
AttemptAt(k) ==
    Kth({i \in 1..Len(calls) : calls[i].method = "read_file"}, k)

\* the k-th attempt raised: its read did, or the post that followed it did
AttemptRaised(k) ==
    LET i == AttemptAt(k)
    IN  \/ calls[i].out.kind = "raise"
        \/ /\ i < Len(calls)
           /\ calls[i + 1].method = "post"
           /\ calls[i + 1].out.kind = "raise"

\* the attempts that raised
RaisedAttempts == {k \in 1..Len(Attempts) : AttemptRaised(k)}

\* what the k-th attempt raised, as str(e)
AttemptError(k) ==
    LET i == AttemptAt(k)
    IN  IF calls[i].out.kind = "raise" THEN calls[i].out.what ELSE calls[i + 1].out.what

\* C28: when pattern_3_iterative_processing has returned, every file was
\* attempted exactly once, in order, whatever the earlier files did; errors
\* is the number of files that raised; processed + errors <= total_files;
\* error_details holds the first min(5, errors) errors.
C28_FailureDoesNotStopLoop ==
    (frame.fn = "pattern_3_iterative_processing" /\ frame.pc = "returned") =>
        LET summary == frame.result.value
            errors == PyGet(summary, "errors", PyNone).int
            details == PyGet(summary, "error_details", PyNone).list
            kept == IF errors < ErrorDetailsMax THEN errors ELSE ErrorDetailsMax
        IN  /\ Len(Attempts) = Len(frame.files)
            /\ \A k \in 1..Len(Attempts) : Attempts[k].path = frame.files[k]
            /\ Cardinality({i \in 1..Len(calls) : calls[i].method = "post"})
                 <= Len(frame.files)
            /\ errors = Cardinality(RaisedAttempts)
            /\ PyGet(summary, "processed", PyNone).int + errors
                 <= PyGet(summary, "total_files", PyNone).int
            /\ PyGet(summary, "total_files", PyNone).int = Len(frame.files)
            /\ Len(details) = kept
            /\ \A k \in 1..kept :
                 LET a == Kth(RaisedAttempts, k)
                 IN  details[k] = PyDict(<< <<"file", PyStr(frame.files[a])>>,
                                            <<"error", PyStr(AttemptError(a))>> >>)

\* a run has returned in which more files raised than error_details keeps,
\* the first file among them, and every file was attempted
C28_Witness ==
    /\ frame.fn = "pattern_3_iterative_processing" /\ frame.pc = "returned"
    /\ Cardinality(RaisedAttempts) > ErrorDetailsMax
    /\ AttemptRaised(1)
    /\ Len(Attempts) = Len(frame.files)

====
